---- MODULE Spec2Model ----
(***************************************************************************)
(* Model of the chunk text extractor, the two page assemblers, the schema  *)
(* normalizer, the extraction-result mergers and the marks extractor of    *)
(* the document-processing pipeline.                                       *)
(*                                                                         *)
(* Text is a sequence of one-character strings; the document text is a     *)
(* sequence of such characters and of the literal pieces of the page       *)
(* marker.  A Python attribute that may be missing, None or a value is a   *)
(* record tagged by k.                                                     *)
(***************************************************************************)
EXTENDS Integers, Sequences, FiniteSets, TLC

(* ---- bounds ---- *)
MaxPage == 3
MaxChunks == 3
MaxSegs == 2
MaxFieldCalls == 2
MaxEntries == 2
MaxCols == 2
MaxRows == 3
MaxJobCalls == 3
MaxPolls == 2

VARIABLES
    \* extract_text_from_chunk / get_page_number applied to one chunk
    chunk_obj, text_out, text_out_legacy, page_out,
    \* process_file_async (page-grouping variant)
    chunks, pc, idx, pages, page_keys, final_pages, all_text, page_count,
    \* LLM extractors and mergers
    mpc, field_results, table_todo, table_results, final_result,
    llm_log, storedData,
    \* process_file_async (variant without page grouping)
    page_texts,
    \* fetch_requested_fields
    doc, requested_fields, npc, nidx, normalized_fields,
    \* extract_marks
    tables, kpc, marks_table, row_idx, final_data,
    \* the credit, file-details and job-status collections
    tb_credits, tb_file_details, job_status, credit_call,
    \* lambda_handler
    variant, event, hpc, frame, credit_calls, response,
    \* the Textract job collection
    tb_textract_jobs, claim_wins, job_call, job_calls,
    \* run_textract
    tpc, source_key, temp_key, temp_object, delete_calls, status, polls,
    textract_out

extractVars == <<chunk_obj, text_out, text_out_legacy, page_out>>
asmVars == <<chunks, pc, idx, pages, page_keys, final_pages, all_text, page_count>>
mergeVars == <<mpc, field_results, table_todo, table_results, final_result,
               llm_log, storedData>>
legacyVars == <<page_texts>>
normVars == <<doc, requested_fields, npc, nidx, normalized_fields>>
marksVars == <<tables, kpc, marks_table, row_idx, final_data>>
coreVars == <<extractVars, asmVars, mergeVars, legacyVars, normVars, marksVars>>
dbVars == <<tb_credits, tb_file_details, job_status>>
creditVars == <<credit_call>>
handlerVars == <<variant, event, hpc, frame, credit_calls, response>>
jobVars == <<tb_textract_jobs, claim_wins, job_call, job_calls>>
textractVars == <<tpc, source_key, temp_key, temp_object, delete_calls, status,
                  polls, textract_out>>
svcVars == <<dbVars, creditVars, handlerVars, jobVars, textractVars>>
vars == <<chunk_obj, text_out, text_out_legacy, page_out,
          chunks, pc, idx, pages, page_keys, final_pages, all_text, page_count,
          mpc, field_results, table_todo, table_results, final_result,
          llm_log, storedData, page_texts,
          doc, requested_fields, npc, nidx, normalized_fields,
          tables, kpc, marks_table, row_idx, final_data,
         svcVars>>

(***************************************************************************)
(* Text                                                                    *)
(***************************************************************************)
Range(s) == {s[i] : i \in 1..Len(s)}

Whitespace == {" ", "\n"}

RECURSIVE LStrip(_)
LStrip(s) ==
    IF s # <<>> /\ Head(s) \in Whitespace THEN LStrip(Tail(s)) ELSE s

RECURSIVE RStrip(_)
RStrip(s) ==
    IF s # <<>> /\ s[Len(s)] \in Whitespace
    THEN RStrip(SubSeq(s, 1, Len(s) - 1)) ELSE s

\* str.strip()
Strip(s) == RStrip(LStrip(s))

\* sep.join(parts)
RECURSIVE Join(_, _)
Join(parts, sep) ==
    IF parts = <<>> THEN <<>>
    ELSE IF Len(parts) = 1 THEN parts[1]
    ELSE parts[1] \o sep \o Join(Tail(parts), sep)

\* the text nodes of a markup string: the maximal runs outside <...>
RECURSIVE TextNodes(_, _, _, _)
TextNodes(s, inTag, cur, acc) ==
    IF s = <<>> THEN (IF cur # <<>> THEN Append(acc, cur) ELSE acc)
    ELSE IF inTag THEN TextNodes(Tail(s), Head(s) # ">", cur, acc)
    ELSE IF Head(s) = "<"
         THEN TextNodes(Tail(s), TRUE, <<>>,
                        IF cur # <<>> THEN Append(acc, cur) ELSE acc)
         ELSE TextNodes(Tail(s), FALSE, Append(cur, Head(s)), acc)

\* BeautifulSoup(t, "html.parser").get_text(separator="\n")
GetText(s) == Join(TextNodes(s, FALSE, <<>>, <<>>), <<"\n">>)

\* the tail shared by both variants: strip markup if "<" and ">" occur, trim
CleanText(chunk_text) ==
    Strip(IF "<" \in Range(chunk_text) /\ ">" \in Range(chunk_text)
          THEN GetText(chunk_text) ELSE chunk_text)

(***************************************************************************)
(* Chunks                                                                  *)
(***************************************************************************)
Absent == [k |-> "absent"]
None == [k |-> "none"]
Str(t) == [k |-> "str", v |-> t]
List(l) == [k |-> "list", v |-> l]
\* metadata: missing, None, {}, a mapping without page_number, or with one
MEmpty == [k |-> "empty"]
MNoPage == [k |-> "nopage"]
MPage(n) == [k |-> "page", v |-> n]

\* Python truthiness of an attribute read with getattr(obj, name, None)
Truthy(a) ==
    \/ a.k = "str" /\ Len(a.v) > 0
    \/ a.k = "list" /\ Len(a.v) > 0
    \/ a.k \in {"nopage", "page"}

\* [seg.content for seg in segments if seg.content]
RECURSIVE SegmentTexts(_)
SegmentTexts(segs) ==
    IF segs = <<>> THEN <<>>
    ELSE IF Truthy(Head(segs).content)
         THEN <<Head(segs).content.v>> \o SegmentTexts(Tail(segs))
         ELSE SegmentTexts(Tail(segs))

\* the if/elif chain of extract_text_from_chunk, then the markup strip
extract_text_from_chunk(c) ==
    LET chunk_text ==
            IF Truthy(c.llm) THEN c.llm.v
            ELSE IF Truthy(c.content) THEN c.content.v
            ELSE IF Truthy(c.segments)
                 THEN Join(SegmentTexts(c.segments.v), <<"\n">>)
            ELSE IF Truthy(c.html) THEN c.html.v
            ELSE <<>>
    IN  CleanText(chunk_text)

\* the same function in the variant without page grouping
extract_text_from_chunk_legacy(c) ==
    LET chunk_text ==
            IF c.llm.k # "absent" /\ Truthy(c.llm) THEN c.llm.v
            ELSE IF c.content.k # "absent" /\ Truthy(c.content) THEN c.content.v
            ELSE IF c.segments.k # "absent" /\ Truthy(c.segments)
                 THEN Join(SegmentTexts(c.segments.v), <<"\n">>)
            ELSE IF c.html.k # "absent" /\ Truthy(c.html) THEN c.html.v
            ELSE <<>>
    IN  CleanText(chunk_text)

Ok(v) == [k |-> "ok", v |-> v]
Raise == [k |-> "raise"]
Unset == [k |-> "unset"]

\* first segment, in order, whose metadata carries a page number
RECURSIVE SegmentPage(_, _)
SegmentPage(segs, default_page) ==
    IF segs = <<>> THEN Ok(default_page)
    ELSE IF Head(segs).metadata.k = "page" THEN Ok(Head(segs).metadata.v)
    ELSE SegmentPage(Tail(segs), default_page)

\* get_page_number: iterating a segments attribute that is None raises
get_page_number(c, default_page) ==
    IF c.metadata.k = "page" THEN Ok(c.metadata.v)
    ELSE IF c.segments.k = "absent" THEN Ok(default_page)
    ELSE IF c.segments.k = "none" THEN Raise
    ELSE SegmentPage(c.segments.v, default_page)

DefaultPage == 1

(***************************************************************************)
(* Inputs                                                                  *)
(***************************************************************************)
tA == <<"A">>
tB == <<"B">>
tC == <<"C">>
tPadB == <<" ", "B", " ">>
tHtmlD == <<"<", "p", ">", "D", "<", "/", "p", ">">>
tHtmlAB == <<"<", "p", ">", "A", "<", "/", "p", ">", "<", "p", ">", "B", "<", "/", "p", ">">>

Segment(content, metadata) == [content |-> content, metadata |-> metadata]
Chunk(llm, content, segments, html, metadata) ==
    [llm |-> llm, content |-> content, segments |-> segments,
     html |-> html, metadata |-> metadata]

Segments ==
    {Segment(c, m) : c \in {Absent, Str(<<>>), Str(tC)},
                     m \in {Absent, MNoPage, MPage(2)}}

SegmentLists == UNION {[1..n -> Segments] : n \in 0..MaxSegs}

\* every shape of chunk the two helpers are applied to
AllChunks ==
    {Chunk(l, c, s, h, m) :
        l \in {Absent, None, Str(<<>>), Str(tA)},
        c \in {Absent, Str(<<>>), Str(tPadB)},
        s \in {Absent, None} \cup {List(sl) : sl \in SegmentLists},
        h \in {Absent, Str(<<>>), Str(tHtmlD)},
        m \in {Absent, None, MNoPage, MPage(3)}}

NoChunk == Chunk(Absent, Absent, Absent, Absent, Absent)

\* the chunks handed to the page assembler
PageChunks ==
    {Chunk(Str(t), Absent, List(<<>>), Absent, MPage(p)) :
        t \in {<<>>, tA, tB}, p \in 1..MaxPage}
    \cup {Chunk(Absent, Absent, List(<<Segment(Str(tC), MPage(2))>>), Absent, Absent),
          Chunk(Absent, Str(tPadB), Absent, Absent, MEmpty),
          Chunk(Absent, Absent, List(<<>>), Str(tHtmlAB), MPage(1)),
          Chunk(Absent, Absent, None, Absent, Absent)}

ChunkSeqs == UNION {[1..n -> PageChunks] : n \in 0..MaxChunks}

(***************************************************************************)
(* The helpers applied to one chunk                                        *)
(***************************************************************************)
ExtractIdle ==
    /\ chunk_obj = NoChunk
    /\ text_out = Unset
    /\ text_out_legacy = Unset
    /\ page_out = Unset

ExtractInit ==
    /\ chunk_obj \in AllChunks
    /\ text_out = Unset
    /\ text_out_legacy = Unset
    /\ page_out = Unset

ApplyExtractText ==
    /\ text_out = Unset
    /\ text_out' = Ok(extract_text_from_chunk(chunk_obj))
    /\ UNCHANGED <<chunk_obj, text_out_legacy, page_out, asmVars, mergeVars, legacyVars, normVars, marksVars,
                   svcVars>>

ApplyExtractTextLegacy ==
    /\ text_out_legacy = Unset
    /\ text_out_legacy' = Ok(extract_text_from_chunk_legacy(chunk_obj))
    /\ UNCHANGED <<chunk_obj, text_out, page_out, asmVars, mergeVars, legacyVars, normVars, marksVars,
                   svcVars>>

ApplyGetPageNumber ==
    /\ page_out = Unset
    /\ page_out' = get_page_number(chunk_obj, DefaultPage)
    /\ UNCHANGED <<chunk_obj, text_out, text_out_legacy, asmVars, mergeVars, legacyVars, normVars, marksVars,
                   svcVars>>

(***************************************************************************)
(* process_file_async, page-grouping variant                               *)
(***************************************************************************)
MarkerPrefix == "===== CHUNKR PAGE NUMBER "
MarkerSuffix == " ====="
BlockSep == <<"\n", "\n">>

\* pages.keys(), in insertion order
Keys(pg) == [i \in 1..Len(pg) |-> pg[i].page_no]

HasKey(pg, k) == \E i \in 1..Len(pg) : pg[i].page_no = k

Lookup(pg, k) == pg[CHOOSE i \in 1..Len(pg) : pg[i].page_no = k].texts

\* pages.setdefault(page_no, []).append(text)
SetDefaultAppend(pg, k, text) ==
    IF HasKey(pg, k)
    THEN [i \in 1..Len(pg) |->
            IF pg[i].page_no = k
            THEN [pg[i] EXCEPT !.texts = Append(@, text)] ELSE pg[i]]
    ELSE Append(pg, [page_no |-> k, texts |-> <<text>>])

Min(S) == CHOOSE m \in S : \A x \in S : m <= x

RemoveFirst(s, x) ==
    LET i == CHOOSE j \in 1..Len(s) : s[j] = x /\ \A h \in 1..(j - 1) : s[h] # x
    IN  SubSeq(s, 1, i - 1) \o SubSeq(s, i + 1, Len(s))

RECURSIVE SortAscending(_)
SortAscending(s) ==
    IF s = <<>> THEN <<>>
    ELSE <<Min(Range(s))>> \o SortAscending(RemoveFirst(s, Min(Range(s))))

InsertionOrder(s) == s

\* sorted(pages.keys())
SortedKeys(s) == SortAscending(s)

RECURSIVE FromKeys(_, _)
FromKeys(s, acc) ==
    IF s = <<>> THEN acc
    ELSE FromKeys(Tail(s), IF Head(s) \in Range(acc) THEN acc ELSE Append(acc, Head(s)))

KeepAll(s) == s

\* list(dict.fromkeys(texts)): duplicates removed, first position kept
UniqueText(s) == FromKeys(s, <<>>)

\* f"===== CHUNKR PAGE NUMBER {page_no} =====\n{page_text}"
LabeledPage(page_no, page_text) ==
    <<MarkerPrefix, ToString(page_no), MarkerSuffix, "\n">> \o page_text

AsmIdle ==
    /\ chunks = <<>>
    /\ pc = "idle"
    /\ idx = 0
    /\ pages = <<>>
    /\ page_keys = <<>>
    /\ final_pages = <<>>
    /\ all_text = <<>>
    /\ page_count = 0

AsmInit ==
    /\ chunks \in ChunkSeqs
    /\ pc = "start"
    /\ idx = 0
    /\ pages = <<>>
    /\ page_keys = <<>>
    /\ final_pages = <<>>
    /\ all_text = <<>>
    /\ page_count = 0

\* if not chunks: return "", 0
CheckChunks ==
    /\ pc = "start"
    /\ pc' = IF chunks = <<>> THEN "done" ELSE "group"
    /\ idx' = 1
    /\ UNCHANGED <<chunks, pages, page_keys, final_pages, all_text, page_count,
                   extractVars, mergeVars, legacyVars, normVars, marksVars,
                   svcVars>>

GroupChunkKeepEmpty ==
    /\ pc = "group"
    /\ idx <= Len(chunks)
    /\ LET page_no == get_page_number(chunks[idx], DefaultPage)
           text == extract_text_from_chunk(chunks[idx])
       IN  IF page_no.k = "raise"
           THEN /\ pc' = "raised"
                /\ UNCHANGED <<idx, pages>>
           ELSE /\ pc' = pc
                /\ idx' = idx + 1
                /\ pages' = SetDefaultAppend(pages, page_no.v, text)
    /\ UNCHANGED <<chunks, page_keys, final_pages, all_text, page_count,
                   extractVars, mergeVars, legacyVars, normVars, marksVars,
                   svcVars>>

\* one iteration of "for chunk in chunks"
GroupChunk ==
    /\ pc = "group"
    /\ idx <= Len(chunks)
    /\ LET page_no == get_page_number(chunks[idx], DefaultPage)
           text == extract_text_from_chunk(chunks[idx])
       IN  IF page_no.k = "raise"
           THEN /\ pc' = "raised"
                /\ UNCHANGED <<idx, pages>>
           ELSE /\ pc' = pc
                /\ idx' = idx + 1
                /\ pages' = IF text = <<>> THEN pages
                            ELSE SetDefaultAppend(pages, page_no.v, text)
    /\ UNCHANGED <<chunks, page_keys, final_pages, all_text, page_count,
                   extractVars, mergeVars, legacyVars, normVars, marksVars,
                   svcVars>>

\* for page_no in sorted(pages.keys())
SortPages ==
    /\ pc = "group"
    /\ idx > Len(chunks)
    /\ page_keys' = SortedKeys(Keys(pages))
    /\ pc' = "build"
    /\ idx' = 1
    /\ UNCHANGED <<chunks, pages, final_pages, all_text, page_count,
                   extractVars, mergeVars, legacyVars, normVars, marksVars,
                   svcVars>>

\* one iteration of the loop that builds the labeled pages
BuildPage ==
    /\ pc = "build"
    /\ idx <= Len(page_keys)
    /\ LET page_no == page_keys[idx]
           unique_text == UniqueText(Lookup(pages, page_no))
           page_text == Strip(Join(unique_text, BlockSep))
       IN  final_pages' = Append(final_pages, LabeledPage(page_no, page_text))
    /\ idx' = idx + 1
    /\ UNCHANGED <<chunks, pc, pages, page_keys, all_text, page_count,
                   extractVars, mergeVars, legacyVars, normVars, marksVars,
                   svcVars>>

\* all_text = "\n\n".join(final_pages); page_count = len(final_pages)
ReturnText ==
    /\ pc = "build"
    /\ idx > Len(page_keys)
    /\ all_text' = Join(final_pages, BlockSep)
    /\ page_count' = Len(final_pages)
    /\ pc' = "done"
    /\ UNCHANGED <<chunks, idx, pages, page_keys, final_pages,
                   extractVars, mergeVars, legacyVars, normVars, marksVars,
                   svcVars>>

(***************************************************************************)
(* JSON values and the text of a model response                            *)
(*                                                                         *)
(* A response is a sequence of tokens: punctuation, the word null,         *)
(* numerals, string literals, blanks and prose words.  A Python string is  *)
(* the sequence of its tokens; a dict is a function on its keys (the order *)
(* of the keys is not modelled).                                           *)
(***************************************************************************)
JNull == [k |-> "null"]
JStr(t) == [k |-> "str", v |-> t]
JNum(n) == [k |-> "num", v |-> n]
JList(l) == [k |-> "list", v |-> l]
JObj(f) == [k |-> "obj", v |-> f]

StringLits == {"Name", "Age", "T", "U", "col1", "col2", "x", "y", "Bob", " Bob ",
               "fieldType", "table", "items"}
\* the string a literal stands for; one literal has blanks around its word
LitValue(lit) == IF lit = " Bob " THEN <<" ", "Bob", " ">> ELSE <<lit>>
NumToks == {"3"}
NumVal(t) == CHOOSE n \in 0..9 : ToString(n) = t

Put(f, key, val) ==
    [q \in (DOMAIN f) \cup {key} |-> IF q = key THEN val ELSE f[q]]

Fail == [ok |-> FALSE]
Good(v, n) == [ok |-> TRUE, val |-> v, next |-> n]

RECURSIVE ParseValue(_, _)
RECURSIVE ParseMembers(_, _, _)
RECURSIVE ParseElements(_, _, _)

ParseValue(t, i) ==
    IF i > Len(t) THEN Fail
    ELSE IF t[i] = "null" THEN Good(JNull, i + 1)
    ELSE IF t[i] \in NumToks THEN Good(JNum(NumVal(t[i])), i + 1)
    ELSE IF t[i] \in StringLits THEN Good(JStr(LitValue(t[i])), i + 1)
    ELSE IF t[i] = "{"
         THEN IF i + 1 <= Len(t) /\ t[i + 1] = "}"
              THEN Good(JObj(<<>>), i + 2)
              ELSE ParseMembers(t, i + 1, <<>>)
    ELSE IF t[i] = "["
         THEN IF i + 1 <= Len(t) /\ t[i + 1] = "]"
              THEN Good(JList(<<>>), i + 2)
              ELSE ParseElements(t, i + 1, <<>>)
    ELSE Fail

ParseMembers(t, i, acc) ==
    IF i + 1 > Len(t) \/ t[i] \notin StringLits THEN Fail
    ELSE IF t[i + 1] # ":" THEN Fail
    ELSE LET r == ParseValue(t, i + 2)
         IN  IF ~r.ok THEN Fail
             ELSE IF r.next > Len(t) THEN Fail
             ELSE IF t[r.next] = "}"
                  THEN Good(JObj(Put(acc, t[i], r.val)), r.next + 1)
             ELSE IF t[r.next] = ","
                  THEN ParseMembers(t, r.next + 1, Put(acc, t[i], r.val))
             ELSE Fail

ParseElements(t, i, acc) ==
    LET r == ParseValue(t, i)
    IN  IF ~r.ok THEN Fail
        ELSE IF r.next > Len(t) THEN Fail
        ELSE IF t[r.next] = "]"
             THEN Good(JList(Append(acc, r.val)), r.next + 1)
        ELSE IF t[r.next] = ","
             THEN ParseElements(t, r.next + 1, Append(acc, r.val))
        ELSE Fail

NotBlank(tok) == tok \notin Whitespace

\* json.loads(text): the value, or raise when text is not one JSON value
json_loads(text) ==
    LET t == SelectSeq(text, NotBlank)
        r == ParseValue(t, 1)
    IN  IF r.ok /\ r.next = Len(t) + 1 THEN Ok(r.val) ELSE Raise

\* re.search(r'\{[\s\S]*\}', text): from the first "{" to the last "}"
RegexObject(text) ==
    LET opens == {i \in 1..Len(text) : text[i] = "{"}
        closes == {i \in 1..Len(text) : text[i] = "}"}
    IN  IF \E i \in opens : \E j \in closes : i < j
        THEN Ok(SubSeq(text, Min(opens), CHOOSE j \in closes : \A h \in closes : h <= j))
        ELSE [k |-> "nomatch"]

\* match = re.search(...); if match: raw = match.group(0)
IsolateJson(text) ==
    IF RegexObject(text).k = "ok" THEN RegexObject(text).v ELSE text

\* the keys of a dict in iteration order
RECURSIVE SetToSeq(_)
SetToSeq(S) ==
    IF S = {} THEN <<>>
    ELSE LET e == CHOOSE q \in S : TRUE IN <<e>> \o SetToSeq(S \ {e})

\* the text of a value: none is the text of null ("None" for str(),
\* "null" for json.dumps); quotes are not modelled
RECURSIVE Serialize(_, _)
Serialize(val, none) ==
    IF val.k = "str" THEN val.v
    ELSE IF val.k = "null" THEN <<none>>
    ELSE IF val.k = "num" THEN <<ToString(val.v)>>
    ELSE IF val.k = "list"
         THEN <<"[">> \o Join([i \in 1..Len(val.v) |-> Serialize(val.v[i], none)], <<",">>)
              \o <<"]">>
    ELSE LET ks == SetToSeq(DOMAIN val.v)
         IN  <<"{">> \o Join([i \in 1..Len(ks) |->
                                <<ks[i], ":">> \o Serialize(val.v[ks[i]], none)], <<",">>)
             \o <<"}">>

\* str(value)
PyStr(val) == Serialize(val, "None")
\* json.dumps(value)
json_dumps(val) == Serialize(val, "null")

\* bool(value)
PyTruthy(val) ==
    \/ val.k = "str" /\ val.v # <<>>
    \/ val.k = "list" /\ val.v # <<>>
    \/ val.k = "obj" /\ DOMAIN val.v # {}
    \/ val.k = "num" /\ val.v # 0

\* "name in container": a key of a dict, an element of a list, a substring
\* of a string; any other container raises
Contains(container, name) ==
    IF container.k = "obj" THEN Ok(name \in DOMAIN container.v)
    ELSE IF container.k = "list" THEN Ok(JStr(<<name>>) \in Range(container.v))
    ELSE IF container.k = "str" THEN Ok(name \in Range(container.v))
    ELSE Raise

\* "for x in value": the elements of a list, the keys of a dict, the pieces
\* of a string; any other value raises
IterElems(val) ==
    IF val.k = "list" THEN Ok(val.v)
    ELSE IF val.k = "obj"
         THEN Ok([i \in 1..Cardinality(DOMAIN val.v) |-> JStr(<<SetToSeq(DOMAIN val.v)[i]>>)])
    ELSE IF val.k = "str" THEN Ok([i \in 1..Len(val.v) |-> JStr(<<val.v[i]>>)])
    ELSE Raise

\* for f in fields: if f["fieldName"] not in target: target[f["fieldName"]] = None
\* (the assignment raises on anything but a dict)
RECURSIVE EnsureKeys(_, _)
EnsureKeys(target, names) ==
    IF names = <<>> THEN Ok(target)
    ELSE IF Contains(target, Head(names)).k = "raise" THEN Raise
    ELSE IF Contains(target, Head(names)).v THEN EnsureKeys(target, Tail(names))
    ELSE IF target.k = "obj"
         THEN EnsureKeys(JObj(Put(target.v, Head(names), JNull)), Tail(names))
    ELSE Raise

(***************************************************************************)
(* The declared extraction targets (the output of the schema normalizer)   *)
(***************************************************************************)
FieldTarget(name) == [fieldType |-> "field", fieldName |-> name]
TableTarget(table, name) ==
    [fieldType |-> "table", tableName |-> table, fieldName |-> name]

field_schema ==
    <<FieldTarget("Name"), FieldTarget("Age"),
      TableTarget("T", "col1"), TableTarget("T", "col2"),
      TableTarget("U", "col1")>>

IsField(f) == f.fieldType = "field"
IsTable(f) == f.fieldType = "table"
field_items == SelectSeq(field_schema, IsField)
table_items == SelectSeq(field_schema, IsTable)

FieldNames(fields) == [i \in 1..Len(fields) |-> fields[i].fieldName]

\* the keys of tables_map, in first-seen order
TableNames == UniqueText([i \in 1..Len(table_items) |-> table_items[i].tableName])

\* tables_map[table_name]: the column names of one table
ColumnsOf(table_name) ==
    LET OfTable(f) == f.tableName = table_name
    IN  FieldNames(SelectSeq(table_items, OfTable))

(***************************************************************************)
(* The extractors: one LLM call each.  out is what agent.complete did:     *)
(* Raise, or Ok(the response text).                                        *)
(***************************************************************************)
RawFallback(raw_output) == JObj("raw" :> JStr(raw_output))

\* extract_field_values_with_llm_forfields: the list extracted_values
extract_field_values_with_llm_forfields(field, out) ==
    IF out.k = "raise" THEN <<JStr(<<"NA">>)>>
    ELSE LET raw_output == IsolateJson(Strip(out.v))
             parsed == json_loads(raw_output)
             filled == IF parsed.k = "ok"
                       THEN EnsureKeys(parsed.v, FieldNames(field)) ELSE Raise
         IN  IF filled.k = "ok" THEN <<filled.v>>
             ELSE <<RawFallback(raw_output)>>

\* for row in rows: for f in fields: ensure the key (rows are changed in place)
RECURSIVE EnsureRows(_, _)
EnsureRows(rows, names) ==
    IF rows = <<>> THEN Ok(<<>>)
    ELSE LET first == EnsureKeys(Head(rows), names)
             rest == EnsureRows(Tail(rows), names)
         IN  IF first.k = "raise" \/ rest.k = "raise" THEN Raise
             ELSE Ok(<<first.v>> \o rest.v)

\* the try block of extract_table_fields_with_llm, for a parsed answer:
\* all_results[table_name], or Raise when the block raised
TableRows(parsed, table_name, names) ==
    LET has == Contains(parsed, table_name)
    IN  IF has.k = "raise" THEN Raise
        ELSE IF has.v
        THEN IF parsed.k # "obj" THEN Raise
             ELSE LET rows == parsed.v[table_name]
                      elems == IterElems(rows)
                      ensured == IF elems.k = "ok" THEN EnsureRows(elems.v, names)
                                 ELSE Raise
                  IN  IF ensured.k = "raise" THEN Raise
                      ELSE IF rows.k = "list" THEN Ok(JList(ensured.v))
                      ELSE Ok(rows)
        ELSE Ok(JList(IF parsed.k = "list" THEN parsed.v ELSE <<parsed>>))

\* one iteration of the loop of extract_table_fields_with_llm:
\* the value of all_results[table_name]
extract_table_fields_with_llm(table_name, out) ==
    IF out.k = "raise" THEN JStr(<<"NA">>)
    ELSE LET raw_output == IsolateJson(Strip(out.v))
             parsed == json_loads(raw_output)
             rows == IF parsed.k = "ok"
                     THEN TableRows(parsed.v, table_name, ColumnsOf(table_name))
                     ELSE Raise
         IN  IF rows.k = "ok" THEN rows.v ELSE RawFallback(raw_output)

\* extract_all_fields_and_tables: None, the parsed answer or the fallback
extract_all_fields_and_tables(out) ==
    IF out.k = "raise" THEN JNull
    ELSE LET raw == IsolateJson(out.v)
             parsed == json_loads(raw)
         IN  IF parsed.k = "ok" THEN parsed.v ELSE RawFallback(raw)

(***************************************************************************)
(* The mergers                                                             *)
(***************************************************************************)
RECURSIVE MergeFieldsFirstWins(_, _)
MergeFieldsFirstWins(results, merged) ==
    IF results = <<>> THEN Ok(merged)
    ELSE LET result == Head(results)
         IN  IF ~PyTruthy(result) THEN MergeFieldsFirstWins(Tail(results), merged)
             ELSE IF result.k # "obj" THEN Raise
             ELSE MergeFieldsFirstWins(Tail(results),
                     [q \in (DOMAIN merged) \cup (DOMAIN result.v) |->
                        IF q \in DOMAIN merged THEN merged[q] ELSE result.v[q]])

\* merged_fields.update(result or {}) over field_results; a non-empty
\* string, list or number is not a mapping and makes update raise
RECURSIVE MergeFields(_, _)
MergeFields(results, merged) ==
    IF results = <<>> THEN Ok(merged)
    ELSE LET result == Head(results)
         IN  IF ~PyTruthy(result) THEN MergeFields(Tail(results), merged)
             ELSE IF result.k # "obj" THEN Raise
             ELSE MergeFields(Tail(results),
                     [q \in (DOMAIN merged) \cup (DOMAIN result.v) |->
                        IF q \in DOMAIN result.v THEN result.v[q] ELSE merged[q]])

\* str(value).strip() if value is not None else ""
FieldCell(val) == IF val.k = "null" THEN JStr(<<>>) ELSE JStr(Strip(PyStr(val)))

\* str(value).strip()
TableCell(val) == JStr(Strip(PyStr(val)))

\* "for row in rows: ... row.items()": the rows, or Raise when rows cannot
\* be iterated or a row is not a dict
DictRows(rows) ==
    LET elems == IterElems(rows)
    IN  IF elems.k = "raise" THEN Raise
        ELSE IF \E i \in 1..Len(elems.v) : elems.v[i].k # "obj" THEN Raise
        ELSE elems

\* {name: str(value).strip() for name, value in row.items()} for each row
NormalizeRows(rows) ==
    IF DictRows(rows).k = "raise" THEN Raise
    ELSE Ok([i \in 1..Len(DictRows(rows).v) |->
                JObj([q \in DOMAIN DictRows(rows).v[i].v |->
                        TableCell(DictRows(rows).v[i].v[q])])])

\* {k: (str(v).strip() if v is not None else "") for k, v in row.items()}
NormalizeRowsSingle(rows) ==
    IF DictRows(rows).k = "raise" THEN Raise
    ELSE Ok([i \in 1..Len(DictRows(rows).v) |->
                JObj([q \in DOMAIN DictRows(rows).v[i].v |->
                        FieldCell(DictRows(rows).v[i].v[q])])])

TableEntry(items) == JObj(("fieldType" :> JStr(<<"table">>)) @@ ("items" :> JList(items)))

\* update_extraction_results_to_mongo: storedData, or Raise
update_extraction_results_to_mongo(fresults, tresults) ==
    LET merged == MergeFields(fresults, <<>>)
        normalized_tables == [t \in DOMAIN tresults |-> NormalizeRows(tresults[t])]
    IN  IF merged.k = "raise" THEN Raise
        ELSE IF \E t \in DOMAIN tresults : normalized_tables[t].k = "raise" THEN Raise
        ELSE LET combined_values ==
                     [q \in (DOMAIN merged.v) \cup (DOMAIN tresults) |->
                        IF q \in DOMAIN tresults THEN TableEntry(normalized_tables[q].v)
                        ELSE FieldCell(merged.v[q])]
             IN  Ok(IF DOMAIN combined_values = {} THEN JNull
                    ELSE JObj(combined_values))

SingleEntryUnchanged(val) == Ok(val)

\* one entry of update_extraction_results_to_mongo_single
SingleEntry(val) ==
    IF val.k \in {"str", "null"}
    THEN Ok(IF PyTruthy(val) THEN val ELSE JStr(<<>>))
    ELSE IF val.k = "obj" /\ "fieldType" \in DOMAIN val.v
            /\ val.v["fieldType"] = JStr(<<"table">>)
    THEN LET items == NormalizeRowsSingle(IF "items" \in DOMAIN val.v
                                          THEN val.v["items"] ELSE JList(<<>>))
         IN  IF items.k = "raise" THEN Raise ELSE Ok(TableEntry(items.v))
    ELSE Ok(JStr(json_dumps(val)))

\* update_extraction_results_to_mongo_single: storedData, or Raise
\* (final_result.items() raises on anything but a dict)
update_extraction_results_to_mongo_single(fresult) ==
    IF fresult.k # "obj" THEN Raise
    ELSE IF \E q \in DOMAIN fresult.v : SingleEntry(fresult.v[q]).k = "raise" THEN Raise
    ELSE Ok(JObj([q \in DOMAIN fresult.v |-> SingleEntry(fresult.v[q]).v]))

(***************************************************************************)
(* What the model may answer                                               *)
(***************************************************************************)
FieldResponses ==
    {<<"{", "Name", ":", "Bob", ",", "Age", ":", "3", "}">>,
     <<"{", "Name", ":", " Bob ", "}">>,
     <<"Here", " ", "{", "Age", ":", "null", "}", " ", "Thanks">>,
     <<"not", " ", "json">>,
     <<" ", "oops", "{", "oops", "}", "Thanks">>,
     <<"{", "}">>,
     <<"[", "Name", "]">>}

TableResponses ==
    {<<"{", "T", ":", "[", "{", "col1", ":", "x", ",", "col2", ":", "y", "}", "]", "}">>,
     <<"{", "T", ":", "[", "{", "col1", ":", "x", "}", ",", "{", "col2", ":", "null", "}", "]", "}">>,
     <<"{", "U", ":", "[", "{", "col1", ":", "x", "}", "]", "}">>,
     <<"{", "col1", ":", "x", "}">>,
     <<"[", "{", "col1", ":", "x", "}", "]">>,
     <<"[", "]">>,
     <<"nope">>,
     <<"{", "U", ":", "{", "col1", ":", "x", "}", "}">>}

UnifiedResponses ==
    {<<"{", "Name", ":", "Bob", ",", "Age", ":", "null", ",",
       "T", ":", "{", "fieldType", ":", "table", ",", "items", ":",
            "[", "{", "col1", ":", "x", ",", "col2", ":", "y", "}", "]", "}", ",",
       "U", ":", "{", "fieldType", ":", "table", ",", "items", ":",
            "[", "{", "col1", ":", "3", "}", "]", "}", "}">>,
     <<"{", "Name", ":", " Bob ", "}">>,
     <<"Here", " ", "{", "Name", ":", "Bob", ",", "Age", ":", "x", ",",
       "T", ":", "{", "fieldType", ":", "table", ",", "items", ":",
            "[", "{", "col1", ":", "x", "}", "]", "}", ",",
       "U", ":", "{", "fieldType", ":", "table", ",", "items", ":", "[", "]", "}",
       "}", " ", "Thanks">>,
     <<"not", " ", "json">>,
     <<" ", "oops", "{", "oops", "}", "Thanks">>,
     <<"[", "3", "]">>,
     <<"{", "Name", ":", "3", ",", "T", ":", "[", "{", "col1", ":", "x", "}", "]", "}">>,
     <<"{", "T", ":", "{", "fieldType", ":", "table", ",", "items", ":", "null", "}", "}">>,
     <<"{", "T", ":", "{", "fieldType", ":", "table", "}", "}">>}

\* agent.complete(prompt) raises, or returns one of the responses
Outcomes(responses) == {Raise} \cup {Ok(r) : r \in responses}

(***************************************************************************)
(* One document through the extractors and a merger: the field groups are  *)
(* extracted first, then the tables, then the results are merged.          *)
(***************************************************************************)
MergeIdle ==
    /\ mpc = "idle"
    /\ field_results = <<>>
    /\ table_todo = <<>>
    /\ table_results = <<>>
    /\ final_result = Unset
    /\ llm_log = <<>>
    /\ storedData = Unset

MergeInit ==
    /\ mpc \in {"legacy", "unified"}
    /\ field_results = <<>>
    /\ table_todo = TableNames
    /\ table_results = <<>>
    /\ final_result = Unset
    /\ llm_log = <<>>
    /\ storedData = Unset

LogEntry(unit, out) == [unit |-> unit, out |-> out]

\* a call of extract_field_values_with_llm_forfields for the declared fields
CallFieldExtractor ==
    /\ mpc = "legacy"
    /\ Len(field_results) < MaxFieldCalls
    /\ table_todo = TableNames
    /\ \E out \in Outcomes(FieldResponses) :
         /\ field_results' = field_results
                \o extract_field_values_with_llm_forfields(field_items, out)
         /\ llm_log' = Append(llm_log, LogEntry("fields", out))
    /\ UNCHANGED <<mpc, table_todo, table_results, final_result, storedData,
                   extractVars, asmVars, legacyVars, normVars, marksVars,
                   svcVars>>

\* one iteration of "for table_name, fields in tables_map.items()"
CallTableExtractor ==
    /\ mpc = "legacy"
    /\ field_results # <<>>
    /\ table_todo # <<>>
    /\ \E out \in Outcomes(TableResponses) :
         /\ table_results' = Put(table_results, Head(table_todo),
                                 extract_table_fields_with_llm(Head(table_todo), out))
         /\ llm_log' = Append(llm_log, LogEntry(Head(table_todo), out))
    /\ table_todo' = Tail(table_todo)
    /\ UNCHANGED <<mpc, field_results, final_result, storedData,
                   extractVars, asmVars, legacyVars, normVars, marksVars,
                   svcVars>>

\* update_extraction_results_to_mongo(field_results, table_results)
MergeLegacy ==
    /\ mpc = "legacy"
    /\ field_results # <<>>
    /\ table_todo = <<>>
    /\ storedData' = update_extraction_results_to_mongo(field_results, table_results)
    /\ mpc' = "merged"
    /\ UNCHANGED <<field_results, table_todo, table_results, final_result, llm_log,
                   extractVars, asmVars, legacyVars, normVars, marksVars,
                   svcVars>>

\* final_result = extract_all_fields_and_tables(field_schema, content, agent)
CallUnifiedExtractor ==
    /\ mpc = "unified"
    /\ final_result = Unset
    /\ \E out \in Outcomes(UnifiedResponses) :
         /\ final_result' = extract_all_fields_and_tables(out)
         /\ llm_log' = Append(llm_log, LogEntry("unified", out))
    /\ UNCHANGED <<mpc, field_results, table_todo, table_results, storedData,
                   extractVars, asmVars, legacyVars, normVars, marksVars,
                   svcVars>>

\* update_extraction_results_to_mongo_single(final_result)
MergeSingle ==
    /\ mpc = "unified"
    /\ final_result # Unset
    /\ storedData' = update_extraction_results_to_mongo_single(final_result)
    /\ mpc' = "merged_single"
    /\ UNCHANGED <<field_results, table_todo, table_results, final_result, llm_log,
                   extractVars, asmVars, legacyVars, normVars, marksVars,
                   svcVars>>

(***************************************************************************)
(* process_file_async, variant without page grouping                       *)
(***************************************************************************)
\* f"=====  CHUNKR PAGE NUMBER {i} =====\n{page_text.strip()}"
LabeledPageLegacy(i, page_text) ==
    <<"=====  CHUNKR PAGE NUMBER ", ToString(i), MarkerSuffix, "\n">> \o Strip(page_text)

LegacyIdle == page_texts = <<>>

\* chunks read from the task output, page_texts = []
LegacyInit ==
    /\ chunks \in ChunkSeqs
    /\ pc = "label"
    /\ idx = 1
    /\ pages = <<>>
    /\ page_keys = <<>>
    /\ final_pages = <<>>
    /\ all_text = <<>>
    /\ page_count = 0
    /\ page_texts = <<>>

\* one iteration of "for i, c in enumerate(chunks, start=1)"
LabelChunk ==
    /\ pc = "label"
    /\ idx <= Len(chunks)
    /\ LET page_text == extract_text_from_chunk_legacy(chunks[idx])
       IN  page_texts' = IF Strip(page_text) # <<>>
                         THEN Append(page_texts, LabeledPageLegacy(idx, page_text))
                         ELSE page_texts
    /\ idx' = idx + 1
    /\ UNCHANGED <<chunks, pc, pages, page_keys, final_pages, all_text, page_count,
                   extractVars, mergeVars, normVars, marksVars,
                   svcVars>>

\* page_texts = list(dict.fromkeys(page_texts)); join; count; return
ReturnTextLegacy ==
    /\ pc = "label"
    /\ idx > Len(chunks)
    /\ page_texts' = UniqueText(page_texts)
    /\ all_text' = Join(UniqueText(page_texts), BlockSep)
    /\ page_count' = Len(UniqueText(page_texts))
    /\ pc' = "done_legacy"
    /\ UNCHANGED <<chunks, idx, pages, page_keys, final_pages,
                   extractVars, mergeVars, normVars, marksVars,
                   svcVars>>

(***************************************************************************)
(* fetch_requested_fields: the schema normalizer                           *)
(*                                                                         *)
(* A raw entry is a mapping whose keys may be missing; a name is a         *)
(* sequence of characters, or None.                                        *)
(***************************************************************************)
\* mapping.get(key, default)
Get(attr, default) == IF attr.k = "absent" THEN default ELSE attr

RawColumn(name, datatype, description, example) ==
    [fieldName |-> name, fieldDatatype |-> datatype,
     fieldDescription |-> description, fieldExample |-> example]

RawEntry(type, name, datatype, description, example, table_data) ==
    [fieldType |-> type, fieldName |-> name, fieldDatatype |-> datatype,
     fieldDescription |-> description, fieldExample |-> example,
     tableData |-> table_data]

ColumnTargetOfNoTable(table_name, col_name, col) ==
    [fieldType |-> "table", tableName |-> <<>>, fieldName |-> col_name,
     fieldDatatype |-> Get(col.fieldDatatype, Str(<<"String">>)),
     fieldDescription |-> Get(col.fieldDescription, Str(<<>>)),
     fieldExample |-> Get(col.fieldExample, Str(<<>>))]

\* the target appended for a named column of a table
ColumnTarget(table_name, col_name, col) ==
    [fieldType |-> "table", tableName |-> table_name, fieldName |-> col_name,
     fieldDatatype |-> Get(col.fieldDatatype, Str(<<"String">>)),
     fieldDescription |-> Get(col.fieldDescription, Str(<<>>)),
     fieldExample |-> Get(col.fieldExample, Str(<<>>))]

\* the target appended for a named field entry
EntryTarget(field_name, field) ==
    [fieldType |-> "field", fieldName |-> field_name,
     fieldDatatype |-> Get(field.fieldDatatype, Str(<<"String">>)),
     fieldDescription |-> Get(field.fieldDescription, Str(<<>>)),
     fieldExample |-> Get(field.fieldExample, Str(<<>>))]

RECURSIVE NormalizeColumnsReversed(_, _, _)
NormalizeColumnsReversed(table_name, table_data, acc) ==
    IF table_data = <<>> THEN Ok(acc)
    ELSE LET col == Head(table_data)
             name == Get(col.fieldName, Str(<<>>))
         IN  IF name.k # "str" THEN Raise
             ELSE IF Strip(name.v) = <<>>
                  THEN NormalizeColumnsReversed(table_name, Tail(table_data), acc)
                  ELSE NormalizeColumnsReversed(table_name, Tail(table_data),
                           <<ColumnTarget(table_name, Strip(name.v), col)>> \o acc)

\* "for col in table_data": Raise when a column name is None
RECURSIVE NormalizeColumns(_, _, _)
NormalizeColumns(table_name, table_data, acc) ==
    IF table_data = <<>> THEN Ok(acc)
    ELSE LET col == Head(table_data)
             name == Get(col.fieldName, Str(<<>>))
         IN  IF name.k # "str" THEN Raise
             ELSE IF Strip(name.v) = <<>>
                  THEN NormalizeColumns(table_name, Tail(table_data), acc)
                  ELSE NormalizeColumns(table_name, Tail(table_data),
                           Append(acc, ColumnTarget(table_name, Strip(name.v), col)))

\* the body of "for field in requested_fields": the targets it appends
NormalizeEntry(field) ==
    LET field_type == Get(field.fieldType, Str(<<"field">>))
        name == Get(field.fieldName, Str(<<>>))
    IN  IF name.k # "str" THEN Raise
        ELSE LET field_name == Strip(name.v)
             IN  IF field_name = <<>> THEN Ok(<<>>)
                 ELSE IF field_type = Str(<<"field">>)
                      THEN Ok(<<EntryTarget(field_name, field)>>)
                 ELSE IF field_type = Str(<<"table">>)
                      THEN LET table_data == Get(field.tableData, List(<<>>))
                           IN  IF ~Truthy(table_data) THEN Ok(<<>>)
                               ELSE NormalizeColumns(field_name, table_data.v, <<>>)
                 ELSE Ok(<<>>)

\* the entries of requestedFields as the cluster document stores them
RawEntries ==
    LET nN == <<"N">>
        nPadN == <<" ", "N", " ">>
        nBlank == <<" ">>
        Named(n) == RawColumn(Str(n), Absent, Absent, Absent)
        Described == RawColumn(Str(<<"d", " ">>), Str(<<"Number">>),
                               Str(<<"x">>), Str(<<"y">>))
        Unnamed == RawColumn(None, Absent, Absent, Absent)
        ColumnLists ==
            UNION {[1..n -> {Named(<<"c">>), Named(nBlank)}] : n \in 0..MaxCols}
            \cup {<<Described, Named(<<"c">>)>>, <<Named(<<"c">>), Unnamed>>}
        FieldEntry(t, n) == RawEntry(t, n, Absent, Absent, Absent, Absent)
    IN  {FieldEntry(Absent, Str(nN)), FieldEntry(Absent, Str(nBlank)),
         FieldEntry(Absent, Absent), FieldEntry(Str(<<"field">>), Str(nPadN)),
         FieldEntry(Str(<<"field">>), None), FieldEntry(Str(<<"other">>), Str(nN)),
         RawEntry(Str(<<"field">>), Str(nN), Str(<<"Number">>), Str(<<"x">>),
                  Str(<<"y">>), Absent),
         RawEntry(Str(<<"table">>), Str(nBlank), Absent, Absent, Absent,
                  List(<<Named(<<"c">>)>>))}
        \cup {RawEntry(Str(<<"table">>), Str(<<"T">>), Absent, Absent, Absent, d) :
                d \in {Absent} \cup {List(cl) : cl \in ColumnLists}}

\* find_one: no document, a document without requestedFields, or with them
Docs ==
    {None, Absent}
    \cup {List(l) : l \in UNION {[1..n -> RawEntries] : n \in 0..MaxEntries}}

NormIdle ==
    /\ doc = None
    /\ requested_fields = <<>>
    /\ npc = "idle"
    /\ nidx = 0
    /\ normalized_fields = <<>>

NormInit ==
    /\ doc \in Docs
    /\ requested_fields = <<>>
    /\ npc = "fetch"
    /\ nidx = 0
    /\ normalized_fields = <<>>

\* if not doc: return []; requested_fields = doc.get("requestedFields", [])
FetchDoc ==
    /\ npc = "fetch"
    /\ IF doc.k = "list"
       THEN /\ requested_fields' = doc.v
            /\ npc' = "loop"
            /\ nidx' = 1
       ELSE /\ npc' = "done"
            /\ UNCHANGED <<requested_fields, nidx>>
    /\ UNCHANGED <<doc, normalized_fields,
                   extractVars, asmVars, mergeVars, legacyVars, marksVars,
                   svcVars>>

\* one iteration of "for field in requested_fields"
NormalizeField ==
    /\ npc = "loop"
    /\ nidx <= Len(requested_fields)
    /\ LET out == NormalizeEntry(requested_fields[nidx])
       IN  IF out.k = "raise"
           THEN /\ npc' = "raised"
                /\ UNCHANGED <<nidx, normalized_fields>>
           ELSE /\ normalized_fields' = normalized_fields \o out.v
                /\ nidx' = nidx + 1
                /\ npc' = npc
    /\ UNCHANGED <<doc, requested_fields,
                   extractVars, asmVars, mergeVars, legacyVars, marksVars,
                   svcVars>>

\* return normalized_fields
ReturnFields ==
    /\ npc = "loop"
    /\ nidx > Len(requested_fields)
    /\ npc' = "done"
    /\ UNCHANGED <<doc, requested_fields, nidx, normalized_fields,
                   extractVars, asmVars, mergeVars, legacyVars, marksVars,
                   svcVars>>

(***************************************************************************)
(* extract_marks                                                           *)
(*                                                                         *)
(* A cell is a string (a sequence of characters), None, or a value that is *)
(* not a string (Num).  The characters U+2713, U+221A and U+00D7 are       *)
(* written by their code points.  Column i of the source is Cell(row, i).  *)
(***************************************************************************)
Num == [k |-> "num"]
IntV(n) == [k |-> "int", v |-> n]

Cell(row, i) == row[i + 1]

IsDigit(c) == c \in {"0", "1", "2", "3", "4", "5", "6", "7", "8", "9"}
DigitVal(c) == CHOOSE n \in 0..9 : ToString(n) = c

\* int(digits)
RECURSIVE ToInt(_, _)
ToInt(digits, acc) ==
    IF digits = <<>> THEN acc
    ELSE ToInt(Tail(digits), 10 * acc + DigitVal(Head(digits)))

LowerCase == <<"a", "b", "c", "d", "e", "l", "o", "q", "s", "t", "x">>
UpperCase == <<"A", "B", "C", "D", "E", "L", "O", "Q", "S", "T", "X">>

\* str.lower() and str.upper(), character by character
Lower(s) ==
    [i \in 1..Len(s) |->
        IF \E j \in 1..Len(UpperCase) : UpperCase[j] = s[i]
        THEN LowerCase[CHOOSE j \in 1..Len(UpperCase) : UpperCase[j] = s[i]]
        ELSE s[i]]
Upper(s) ==
    [i \in 1..Len(s) |->
        IF \E j \in 1..Len(LowerCase) : LowerCase[j] = s[i]
        THEN UpperCase[CHOOSE j \in 1..Len(LowerCase) : LowerCase[j] = s[i]]
        ELSE s[i]]

\* needle in s
IsSubstring(needle, s) ==
    \E i \in 1..(Len(s) - Len(needle) + 1) :
        SubSeq(s, i, i + Len(needle) - 1) = needle

\* _safe_to_int: Ok(None), Ok(IntV(n)), or Raise for a value without strip()
_safe_to_int(value) ==
    IF value.k = "none" THEN Ok(None)
    ELSE IF value.k = "num" THEN Raise
    ELSE IF value.v = <<>> THEN Ok(None)
    ELSE LET digits == SelectSeq(Strip(value.v), IsDigit)
         IN  IF digits # <<>> THEN Ok(IntV(ToInt(digits, 0))) ELSE Ok(None)

NeverCheckmark(value) == Ok(FALSE)

\* _is_checkmark: Ok(TRUE), Ok(FALSE), or Raise
_is_checkmark(value) ==
    IF value.k = "none" THEN Ok(FALSE)
    ELSE IF value.k = "num" THEN Raise
    ELSE IF value.v = <<>> THEN Ok(FALSE)
    ELSE Ok(\/ Upper(Strip(value.v)) = <<"S", "E", "L", "E", "C", "T", "E", "D">>
            \/ Strip(value.v) \in {<<"U+2713">>, <<"/">>, <<"\\">>, <<"U+221A">>,
                                    <<"U+00D7">>, <<"x">>})

\* what extract_marks returns when "not tables"
EmptyData == [PartA |-> <<>>, PartB_C |-> <<>>, Totals |-> <<>>, metadata |-> <<>>]

\* final_data before the loop
InitialData ==
    [PartA |-> <<>>, PartB_C |-> <<>>, Totals |-> <<>>,
     metadata |-> [q \in {"total_questions_part_a", "answered_questions_part_a",
                          "total_questions_part_bc", "answered_questions_part_bc"}
                   |-> 0]]

Question(q_no, marks, answered) ==
    [Q_No |-> q_no, Marks |-> marks, Answered |-> answered]

Count(meta, key) == [meta EXCEPT ![key] = @ + 1]

FirstTable(tbls) == tbls[1]

\* max(tables, key=len): the first table of the greatest length
LargestTable(tbls) ==
    tbls[CHOOSE i \in 1..Len(tbls) :
            /\ \A j \in 1..Len(tbls) : Len(tbls[j]) <= Len(tbls[i])
            /\ \A j \in 1..(i - 1) : Len(tbls[j]) < Len(tbls[i])]

\* the Part A try block: Ok(final_data), or Raise (nothing was changed)
PartA(fd, row) ==
    LET q_no == IF Len(row) > 0 THEN _safe_to_int(Cell(row, 0)) ELSE Ok(None)
        mark_val == IF q_no.k = "raise" THEN Raise
                    ELSE IF Len(row) > 2 THEN _safe_to_int(Cell(row, 2)) ELSE Ok(None)
        answered == IF mark_val.k = "raise" THEN Raise
                    ELSE IF Len(row) > 1 THEN _is_checkmark(Cell(row, 1)) ELSE Ok(FALSE)
    IN  IF answered.k = "raise" THEN Raise
        ELSE IF q_no.v.k = "int" /\ 1 <= q_no.v.v /\ q_no.v.v <= 10
             THEN Ok([fd EXCEPT
                        !.PartA = Append(@, Question(<<ToString(q_no.v.v)>>,
                                                     mark_val.v, answered.v)),
                        !.metadata =
                            IF answered.v
                            THEN Count(Count(@, "total_questions_part_a"),
                                       "answered_questions_part_a")
                            ELSE Count(@, "total_questions_part_a")])
             ELSE Ok(fd)

\* sum(_safe_to_int(row[i]) or 0 for i in cols if len(row) > i)
RECURSIVE SumColumns(_, _, _)
SumColumns(row, cols, acc) ==
    IF cols = <<>> THEN Ok(IntV(acc))
    ELSE IF Len(row) > Head(cols)
         THEN LET n == _safe_to_int(Cell(row, Head(cols)))
              IN  IF n.k = "raise" THEN Raise
                  ELSE SumColumns(row, Tail(cols),
                                  acc + (IF n.v.k = "int" THEN n.v.v ELSE 0))
         ELSE SumColumns(row, Tail(cols), acc)

\* any(_is_checkmark(row[i]) for i in cols if len(row) > i): stops at a True
RECURSIVE AnyCheckmark(_, _)
AnyCheckmark(row, cols) ==
    IF cols = <<>> THEN Ok(FALSE)
    ELSE IF Len(row) > Head(cols)
         THEN LET m == _is_checkmark(Cell(row, Head(cols)))
              IN  IF m.k = "raise" THEN Raise
                  ELSE IF m.v THEN Ok(TRUE)
                  ELSE AnyCheckmark(row, Tail(cols))
         ELSE AnyCheckmark(row, Tail(cols))

AlwaysFresh(items, q_id) == FALSE

\* any(item["Q_No"] == q_id for item in final_data["PartB_C"])
AlreadyListed(items, q_id) == \E i \in 1..Len(items) : items[i].Q_No = q_id

\* the Part B/C try block: Ok(final_data), or Raise (nothing was changed)
PartBC(fd, row) ==
    LET q_no == IF Len(row) > 3 THEN _safe_to_int(Cell(row, 3)) ELSE Ok(None)
        sub_part ==
            IF q_no.k = "raise" THEN Raise
            ELSE IF Len(row) > 4 /\ Cell(row, 4).k = "num" THEN Raise
            ELSE IF Len(row) > 4 /\ Cell(row, 4).k = "str"
                 THEN Ok(Lower(Strip(Cell(row, 4).v)))
            ELSE Ok(<<>>)
        total_marks ==
            IF sub_part.k = "raise" THEN Raise
            ELSE IF Len(row) > 11 THEN _safe_to_int(Cell(row, 11)) ELSE Ok(None)
    IN  IF total_marks.k = "raise" THEN Raise
        ELSE IF /\ q_no.v.k = "int"
                /\ 11 <= q_no.v.v /\ q_no.v.v <= 16
                /\ sub_part.v \in {<<"a">>, <<"b">>}
             THEN LET marks == IF total_marks.v.k = "none"
                               THEN SumColumns(row, <<6, 8, 10>>, 0)
                               ELSE total_marks
                      answered == IF marks.k = "raise" THEN Raise
                                  ELSE AnyCheckmark(row, <<5, 7, 9>>)
                      q_id == <<ToString(q_no.v.v)>> \o sub_part.v
                  IN  IF answered.k = "raise" THEN Raise
                      ELSE IF AlreadyListed(fd.PartB_C, q_id) THEN Ok(fd)
                      ELSE Ok([fd EXCEPT
                                 !.PartB_C = Append(@, Question(q_id, marks.v,
                                                                answered.v)),
                                 !.metadata =
                                     IF answered.v
                                     THEN Count(Count(@, "total_questions_part_bc"),
                                                "answered_questions_part_bc")
                                     ELSE Count(@, "total_questions_part_bc")])
             ELSE Ok(fd)

\* the totals try block: a failure keeps what was stored before it
TotalsRow(fd, row) ==
    IF Len(row) = 0 \/ Cell(row, 0).k # "str" THEN fd
    ELSE IF ~IsSubstring(<<"t", "o", "t", "a", "l">>, Lower(Cell(row, 0).v)) THEN fd
    ELSE LET a == IF Len(row) > 2 THEN _safe_to_int(Cell(row, 2)) ELSE Unset
             withA == IF a.k = "ok"
                      THEN [fd EXCEPT !.Totals = Put(@, "PartA_Total", a.v)]
                      ELSE fd
             b == IF a.k # "raise" /\ Len(row) > 11
                  THEN _safe_to_int(Cell(row, 11)) ELSE Unset
         IN  IF b.k = "ok"
             THEN [withA EXCEPT !.Totals = Put(@, "PartBC_Total", b.v)]
             ELSE withA

\* the body of "for idx, row in enumerate(marks_table)"; idx counts from 0
ProcessRow(fd, row, i) ==
    IF i = 0 THEN fd
    ELSE LET a == PartA(fd, row)
         IN  IF a.k = "raise" THEN fd
             ELSE LET b == PartBC(a.v, row)
                  IN  IF b.k = "raise" THEN a.v
                      ELSE TotalsRow(b.v, row)

\* Totals.get(key, 0) or 0
TotalOrZero(totals, key) ==
    IF key \in DOMAIN totals /\ totals[key].k = "int" THEN totals[key].v ELSE 0

PartATotalOnly(totals) == TotalOrZero(totals, "PartA_Total")

\* part_a_total + part_bc_total of the grand total fallback
GrandTotal(totals) ==
    TotalOrZero(totals, "PartA_Total") + TotalOrZero(totals, "PartBC_Total")

\* the rows a table is made of: questions of Part A and of Part B/C, totals
\* rows, rows with a cell that is not a string, a rejected row, a row with
\* the question number and sub-part in columns 0 and 1, an empty row
Rows ==
    LET E == Str(<<>>)
        Ch(c) == Str(<<c>>)
        RowA1 == <<Ch("1"), Ch("U+2713"), Ch("5")>>
        RowA2BC12b ==
            <<Ch("2"), Str(<<"s", "e", "l", "e", "c", "t", "e", "d">>), E,
              Str(<<"1", "2">>), Str(<<" ", "B">>), E, E, Ch("x"), Ch("3"), E, E, E>>
        RowBC11a ==
            <<E, E, E, Str(<<"1", "1">>), Ch("a"), Ch("/"), Ch("5"), E, Ch("3"), E,
              Ch("2"), Str(<<"1", "0">>)>>
        RowBC11aAgain ==
            <<E, E, E, Str(<<"Q", "1", "1">>), Ch("A"), E, Ch("4"), E, None, E, E>>
        RowTotals ==
            <<Str(<<"T", "o", "t", "a", "l">>), E, Str(<<"2", "0">>), E, E, E, E, E,
              E, E, E, Str(<<"1", "5">>)>>
        RowTotalsShort == <<Str(<<"T", "O", "T", "A", "L", " ", "1">>), E, E>>
        RowBadA ==
            <<Num, E, E, Str(<<"1", "3">>), Ch("a"), E, E, E, E, E, E, Ch("4")>>
        RowBadBC ==
            <<Str(<<"t", "o", "t", "a", "l">>), E, Ch("7"), Str(<<"1", "4">>), Num,
              E, E, E, E, E, E, Ch("9")>>
        RowRejected ==
            <<Str(<<"1", "1">>), Ch("a"), E, Str(<<"1", "7">>), Ch("a"), E, E, E, E,
              E, E, Ch("6")>>
        RowQuestionFirst ==
            <<Str(<<"1", "1">>), Ch("a"), E, Ch("x"), E, Ch("5"), E, Ch("3"), E,
              Ch("2"), E, Str(<<"1", "0">>)>>
    IN  {RowA1, RowA2BC12b, RowBC11a, RowBC11aAgain, RowTotals, RowTotalsShort,
         RowBadA, RowBadBC, RowRejected, RowQuestionFirst, <<>>}

\* the table lists: none, a table alone, or a table before or after a
\* second table of two rows
TableLists ==
    LET MarksTables == UNION {[1..n -> Rows] : n \in 0..MaxRows}
        other == <<<<Str(<<"1">>), Str(<<"/">>), Str(<<"5">>)>>,
                   <<Str(<<"2">>), Str(<<>>), Str(<<"4">>)>>>>
    IN  {<<>>} \cup {<<t>> : t \in MarksTables}
        \cup {<<t, other>> : t \in MarksTables}
        \cup {<<other, t>> : t \in MarksTables}

MarksIdle ==
    /\ tables = <<>>
    /\ kpc = "idle"
    /\ marks_table = <<>>
    /\ row_idx = 0
    /\ final_data = EmptyData

MarksInit ==
    /\ tables \in TableLists
    /\ kpc = "start"
    /\ marks_table = <<>>
    /\ row_idx = 0
    /\ final_data = EmptyData

\* if not tables: return the empty result; else pick the marks table
StartMarks ==
    /\ kpc = "start"
    /\ IF tables = <<>>
       THEN /\ kpc' = "done"
            /\ UNCHANGED <<marks_table, final_data>>
       ELSE /\ kpc' = "rows"
            /\ marks_table' = LargestTable(tables)
            /\ final_data' = InitialData
    /\ UNCHANGED <<tables, row_idx,
                   extractVars, asmVars, mergeVars, legacyVars, normVars,
                   svcVars>>

\* one iteration of the loop over the rows of marks_table
MarksRow ==
    /\ kpc = "rows"
    /\ row_idx < Len(marks_table)
    /\ final_data' = ProcessRow(final_data, marks_table[row_idx + 1], row_idx)
    /\ row_idx' = row_idx + 1
    /\ UNCHANGED <<tables, kpc, marks_table,
                   extractVars, asmVars, mergeVars, legacyVars, normVars,
                   svcVars>>

\* the grand total fallback, then return final_data
ReturnMarks ==
    /\ kpc = "rows"
    /\ row_idx >= Len(marks_table)
    /\ final_data' = [final_data EXCEPT
                        !.Totals = Put(@, "GrandTotal", IntV(GrandTotal(@)))]
    /\ kpc' = "done"
    /\ UNCHANGED <<tables, row_idx, marks_table,
                   extractVars, asmVars, mergeVars, legacyVars, normVars,
                   svcVars>>

(***************************************************************************)
(* Credit records and file details (mongo.py)                              *)
(***************************************************************************)
Oid(t) == [k |-> "oid", v |-> t]
Dict(f) == [k |-> "dict", v |-> f]

\* bson.ObjectId(x): the id a string names, x itself when it is an
\* ObjectId, a newly generated id when x is None
ObjectId(x) ==
    IF x.k = "none" THEN Oid("new")
    ELSE IF x.k = "oid" THEN x
    ELSE Oid(x.v[1])

\* "if x": None, "" and {} are false; an ObjectId is true
IsTrue(x) ==
    \/ x.k = "oid"
    \/ x.k = "str" /\ Len(x.v) > 0
    \/ x.k = "dict" /\ DOMAIN x.v # {}

\* the documents a filter {"_id": id} matches in a collection keyed by
\* ObjectId
Matches(collection, id) ==
    IF id.k = "oid" THEN {id.v} \cap DOMAIN collection ELSE {}

Without(collection, keys) ==
    [q \in (DOMAIN collection) \ keys |-> collection[q]]

\* update_one / find_one_and_update with $set of one field on the matches
SetStatus(collection, keys, value) ==
    [q \in DOMAIN collection |-> IF q \in keys THEN value ELSE collection[q]]

\* mark_file_as_failed: the file details after the call
mark_file_as_failed(doc_id, files) ==
    SetStatus(files, Matches(files, ObjectId(doc_id)), "Failed")

\* update_job_status: upsert of the status document of job_id
update_job_status(job_id, status_, jobs) == Put(jobs, job_id, status_)

DeleteCreditAlwaysRaises(credit_id, file_id, credits, files) ==
    [out |-> Raise, credits |-> credits, files |-> files]

\* delete_credit_record: its outcome and the two collections after it
delete_credit_record(credit_id, file_id, credits, files) ==
    IF ~IsTrue(credit_id)
    THEN [out |-> Raise, credits |-> credits, files |-> files]
    ELSE LET hit == Matches(credits, ObjectId(credit_id))
         IN  IF hit = {}
             THEN [out |-> Ok("error"), credits |-> credits, files |-> files]
             ELSE [out |-> Ok("success"),
                   credits |-> Without(credits, hit),
                   files |-> IF IsTrue(file_id)
                             THEN SetStatus(files, Matches(files, ObjectId(file_id)),
                                            "Failed")
                             ELSE files]

\* update_debit_credit: its outcome and the two collections after it
update_debit_credit(credit_id, file_id, credits, files) ==
    IF ~IsTrue(credit_id)
    THEN [out |-> Raise, credits |-> credits, files |-> files]
    ELSE LET hit == Matches(credits, ObjectId(credit_id))
         IN  IF hit = {}
             THEN [out |-> Ok("error"), credits |-> credits, files |-> files]
             ELSE [out |-> Ok("success"),
                   credits |-> SetStatus(credits, hit, "debited"),
                   files |-> IF IsTrue(file_id)
                             THEN SetStatus(files, Matches(files, ObjectId(file_id)),
                                            "Completed")
                             ELSE files]

\* the collections before a call: each record may be there or not
CreditCollections == UNION {[S -> {"issued", "debited"}] : S \in SUBSET {"c1", "c2"}}
FileCollections ==
    UNION {[S -> {"Processing", "Completed"}] : S \in SUBSET {"f1"}}

\* the arguments of a call of one of the two credit functions
CreditIds == {None, Str(<<>>), Str(<<"c1">>), Oid("c1"), Oid("c2")}
FileIds == {None, Str(<<"f1">>), Oid("f1")}

DbIdle ==
    /\ tb_credits = <<>>
    /\ tb_file_details = <<>>
    /\ job_status = <<>>

CreditIdle == credit_call = None

CreditInit ==
    /\ tb_credits \in CreditCollections
    /\ tb_file_details \in FileCollections
    /\ job_status = <<>>
    /\ credit_call = None

\* one call of delete_credit_record
CallDeleteCreditRecord ==
    \E credit_id \in CreditIds, file_id \in FileIds :
        LET r == delete_credit_record(credit_id, file_id, tb_credits,
                                      tb_file_details)
        IN  /\ tb_credits' = r.credits
            /\ tb_file_details' = r.files
            /\ credit_call' = [fn |-> "delete", credit_id |-> credit_id,
                               file_id |-> file_id, out |-> r.out,
                               credits |-> tb_credits, files |-> tb_file_details]
            /\ UNCHANGED <<job_status, handlerVars, jobVars, textractVars, coreVars>>

\* one call of update_debit_credit
CallUpdateDebitCredit ==
    \E credit_id \in CreditIds, file_id \in FileIds :
        LET r == update_debit_credit(credit_id, file_id, tb_credits,
                                     tb_file_details)
        IN  /\ tb_credits' = r.credits
            /\ tb_file_details' = r.files
            /\ credit_call' = [fn |-> "update", credit_id |-> credit_id,
                               file_id |-> file_id, out |-> r.out,
                               credits |-> tb_credits, files |-> tb_file_details]
            /\ UNCHANGED <<job_status, handlerVars, jobVars, textractVars, coreVars>>

(***************************************************************************)
(* lambda_handler (my_lambda and my_lambda1)                               *)
(***************************************************************************)
\* the events: userId, fileId and creditId may each be missing
Events ==
    [userId : {Str(<<"u1">>), Absent}, clusterId : {Str(<<"k1">>)},
     fileId : {Str(<<"f1">>), Absent}, creditId : {Str(<<"c1">>), Absent},
     jobId : {Str(<<"j1">>)}]

\* what run_chunkr gives: an exception, None, {}, a string, or a result
\* with a page count
ChunkrOutcomes ==
    {Raise, Ok(None), Ok(Dict(<<>>)), Ok(Str(<<"x">>))}
    \cup {Ok(Dict([page_count |-> n, normalized_data |-> Str(<<"x">>)])) :
            n \in 0..MaxPage}

\* event.get(key)
EventGet(ev, key) == IF ev[key] = Absent THEN None ELSE ev[key]

\* the locals of lambda_handler before its try block
InitialFrame(v) ==
    LET unbound == [n \in {"user_id", "cluster_id", "file_id", "credit_id",
                           "job_id", "filename", "credit_oid", "file_oid",
                           "extraction_result", "page_count"} |-> Unset]
    IN  IF v = "my_lambda1"
        THEN [unbound EXCEPT !.page_count = IntV(0), !.filename = None,
                             !.extraction_result = None, !.credit_id = None,
                             !.credit_oid = None, !.file_oid = None]
        ELSE unbound

\* the payload of a return statement; Raise when a local it reads is unbound
Payload(status_, fr, names, normalized_data) ==
    IF \E n \in names : fr[n] = Unset THEN Raise
    ELSE Ok([status |-> status_, creditId |-> fr.credit_id,
             filename |-> fr.filename, page_count |-> fr.page_count,
             normalized_data |-> normalized_data])

\* the credit cleanup of a failure path: the outcome (Raise when the
\* cleanup raises into the handler), the collections, the number of calls
CreditCleanup(v, fr, credits, files) ==
    IF v = "my_lambda1"
    THEN IF fr.credit_oid # Unset /\ IsTrue(fr.credit_oid)
         THEN LET r == delete_credit_record(fr.credit_oid, fr.file_oid,
                                            credits, files)
              IN  [out |-> Ok("done"), credits |-> r.credits, files |-> r.files,
                   calls |-> 1]
         ELSE [out |-> Ok("done"), credits |-> credits, files |-> files,
               calls |-> 0]
    ELSE IF fr.credit_id = Unset
         THEN [out |-> Raise, credits |-> credits, files |-> files, calls |-> 0]
    ELSE IF ~IsTrue(fr.credit_id)
         THEN [out |-> Ok("done"), credits |-> credits, files |-> files,
               calls |-> 0]
    ELSE IF fr.credit_oid = Unset \/ fr.file_oid = Unset
         THEN [out |-> Raise, credits |-> credits, files |-> files, calls |-> 0]
    ELSE LET r == delete_credit_record(fr.credit_oid, fr.file_oid, credits, files)
         IN  [out |-> r.out, credits |-> r.credits, files |-> r.files,
              calls |-> 1]

HandlerIdle ==
    /\ variant = "none"
    /\ event = None
    /\ hpc = "idle"
    /\ frame = <<>>
    /\ credit_calls = 0
    /\ response = Unset

HandlerInit ==
    /\ variant \in {"my_lambda", "my_lambda1"}
    /\ event \in Events
    /\ hpc = "start"
    /\ frame = InitialFrame(variant)
    /\ credit_calls = 0
    /\ response = Unset
    /\ tb_credits \in {<<>>, [c \in {"c1"} |-> "issued"]}
    /\ tb_file_details \in {<<>>, [f \in {"f1"} |-> "Processing"]}
    /\ job_status = <<>>
    /\ credit_call = None

\* the required fields and the two optional ones are read from the event
ReadEvent ==
    /\ hpc = "start"
    /\ IF event.userId = Absent
       THEN /\ hpc' = "fatal"
            /\ UNCHANGED frame
       ELSE IF event.fileId = Absent
       THEN /\ hpc' = "fatal"
            /\ frame' = [frame EXCEPT !.user_id = event.userId,
                                      !.cluster_id = event.clusterId]
       ELSE /\ hpc' = "lookup"
            /\ frame' = [frame EXCEPT !.user_id = event.userId,
                                      !.cluster_id = event.clusterId,
                                      !.file_id = event.fileId,
                                      !.credit_id = EventGet(event, "creditId"),
                                      !.job_id = EventGet(event, "jobId")]
    /\ UNCHANGED <<variant, event, credit_calls, response, dbVars, creditVars,
                   jobVars, textractVars, coreVars>>

\* get_original_filename_from_mongo, then the ObjectId conversions
LookupFilename ==
    /\ hpc = "lookup"
    /\ IF Matches(tb_file_details, ObjectId(frame.file_id)) = {}
       THEN /\ hpc' = "fatal"
            /\ UNCHANGED frame
       ELSE /\ hpc' = "run"
            /\ frame' = [frame EXCEPT
                           !.filename = Str(<<"name">>),
                           !.file_oid = ObjectId(frame.file_id),
                           !.credit_oid =
                               IF variant = "my_lambda1" /\ ~IsTrue(frame.credit_id)
                               THEN None ELSE ObjectId(frame.credit_id)]
    /\ UNCHANGED <<variant, event, credit_calls, response, dbVars, creditVars,
                   jobVars, textractVars, coreVars>>

\* the call of run_chunkr and its except clause
RunChunkr ==
    /\ hpc = "run"
    /\ \E out \in ChunkrOutcomes :
          IF out # Raise
          THEN /\ frame' = [frame EXCEPT !.extraction_result = out.v]
               /\ hpc' = "validate"
               /\ UNCHANGED <<credit_calls, response, dbVars>>
          ELSE LET c == CreditCleanup(variant, frame, tb_credits, tb_file_details)
               IN  IF variant = "my_lambda1"
                   THEN /\ tb_credits' = c.credits
                        /\ tb_file_details' = mark_file_as_failed(frame.file_id, c.files)
                        /\ job_status' = update_job_status(frame.job_id.v[1], "error",
                                                           job_status)
                        /\ credit_calls' = credit_calls + c.calls
                        /\ response' = Payload("Failed", frame,
                                               {"credit_id", "cluster_id", "user_id",
                                                "file_id", "filename", "page_count"},
                                               None)
                        /\ hpc' = "returned"
                        /\ UNCHANGED frame
                   ELSE /\ tb_credits' = c.credits
                        /\ tb_file_details' = c.files
                        /\ credit_calls' = credit_calls + c.calls
                        /\ hpc' = IF c.out = Raise THEN "fatal" ELSE "validate"
                        /\ UNCHANGED <<frame, response, job_status>>
    /\ UNCHANGED <<variant, event, creditVars, jobVars, textractVars, coreVars>>

\* the validation of the output, then the failure return or the success
\* return
ValidateOutput ==
    /\ hpc = "validate"
    /\ IF frame.extraction_result = Unset
       THEN /\ hpc' = "fatal"
            /\ UNCHANGED <<frame, credit_calls, response, dbVars>>
       ELSE IF ~IsTrue(frame.extraction_result)
               \/ frame.extraction_result.k # "dict"
       THEN LET c == CreditCleanup(variant, frame, tb_credits, tb_file_details)
                payload == Payload("Failed", frame,
                                   {"credit_id", "cluster_id", "user_id", "file_id",
                                    "filename", "page_count"}, None)
            IN  /\ credit_calls' = credit_calls + c.calls
                /\ tb_credits' = c.credits
                /\ UNCHANGED frame
                /\ IF c.out = Raise
                   THEN /\ tb_file_details' = c.files
                        /\ hpc' = "fatal"
                        /\ UNCHANGED <<response, job_status>>
                   ELSE /\ tb_file_details' = mark_file_as_failed(frame.file_id, c.files)
                        /\ job_status' = update_job_status(frame.job_id.v[1], "error",
                                                           job_status)
                        /\ IF payload = Raise
                           THEN hpc' = "fatal" /\ UNCHANGED response
                           ELSE hpc' = "returned" /\ response' = payload
       ELSE LET result == frame.extraction_result.v
                count == IF "page_count" \in DOMAIN result
                         THEN IntV(result.page_count) ELSE IntV(0)
                fr == [frame EXCEPT !.page_count = count]
            IN  /\ frame' = fr
                /\ response' = Payload("success", fr,
                                       {"credit_id", "cluster_id", "user_id",
                                        "file_id", "filename", "page_count"},
                                       IF variant = "my_lambda1"
                                       THEN result.normalized_data
                                       ELSE frame.extraction_result)
                /\ hpc' = "returned"
                /\ UNCHANGED <<credit_calls, dbVars>>
    /\ UNCHANGED <<variant, event, creditVars, jobVars, textractVars, coreVars>>

\* the outer except clause
FatalError ==
    /\ hpc = "fatal"
    /\ LET marked == mark_file_as_failed(EventGet(event, "fileId"), tb_file_details)
           c == CreditCleanup(variant, frame, tb_credits, marked)
           names == IF variant = "my_lambda1"
                    THEN {"credit_id", "cluster_id", "filename", "page_count"}
                    ELSE {"credit_id", "cluster_id", "user_id", "file_id",
                          "filename", "page_count"}
       IN  /\ tb_credits' = c.credits
           /\ tb_file_details' = c.files
           /\ credit_calls' = credit_calls + c.calls
           /\ IF c.out = Raise
              THEN /\ response' = Raise
                   /\ UNCHANGED job_status
              ELSE /\ job_status' = update_job_status(EventGet(event, "jobId").v[1],
                                                      "error", job_status)
                   /\ response' = Payload("Failed", frame, names, None)
           /\ hpc' = "returned"
    /\ UNCHANGED <<variant, event, frame, creditVars, jobVars, textractVars,
                   coreVars>>

(***************************************************************************)
(* Textract job records (mongo.py)                                         *)
(***************************************************************************)
ClaimOverwrites(file_id, owner, jobs) ==
    [out |-> TRUE,
     jobs |-> Put(jobs, ObjectId(file_id).v,
                  [owner |-> owner, status |-> "CLAIMED", jobId |-> None,
                   attempts |-> 0])]

\* try_claim_processing: insert_one of a new job record under
\* ObjectId(file_id); a DuplicateKeyError gives False
try_claim_processing(file_id, owner, jobs) ==
    LET key == ObjectId(file_id).v
    IN  IF key \in DOMAIN jobs
        THEN [out |-> FALSE, jobs |-> jobs]
        ELSE [out |-> TRUE,
              jobs |-> Put(jobs, key,
                           [owner |-> owner, status |-> "CLAIMED", jobId |-> None,
                            attempts |-> 0])]

\* set_job_started: find_one_and_update with the filter {"_id": file_id},
\* file_id as it was passed
set_job_started(file_id, job_id, jobs) ==
    [q \in DOMAIN jobs |->
        IF q \in Matches(jobs, file_id)
        THEN [jobs[q] EXCEPT !.jobId = job_id, !.status = "IN_PROGRESS",
                             !.attempts = @ + 1]
        ELSE jobs[q]]

\* set_job_succeeded and set_job_failed: the filter is
\* {"_id": ObjectId(file_id)}
set_job_finished(file_id, status_, jobs) ==
    [q \in DOMAIN jobs |->
        IF q \in Matches(jobs, ObjectId(file_id))
        THEN [jobs[q] EXCEPT !.status = status_]
        ELSE jobs[q]]

\* a file id as a caller holds it: the string or the ObjectId
JobFileIds == {Str(<<"f1">>), Oid("f1"), Str(<<"f2">>)}
Owners == {"w1", "w2", "w3"}

JobIdle ==
    /\ tb_textract_jobs = <<>>
    /\ claim_wins = <<>>
    /\ job_call = None
    /\ job_calls = 0

JobInit ==
    /\ tb_textract_jobs = <<>>
    /\ claim_wins = [f \in {"f1", "f2"} |-> 0]
    /\ job_call = None
    /\ job_calls = 0

\* one call of try_claim_processing by one of the workers
TryClaim ==
    /\ job_calls < MaxJobCalls
    /\ \E file_id \in JobFileIds, owner \in Owners :
          LET r == try_claim_processing(file_id, owner, tb_textract_jobs)
              key == ObjectId(file_id).v
          IN  /\ tb_textract_jobs' = r.jobs
              /\ claim_wins' = [claim_wins EXCEPT
                                  ![key] = IF r.out THEN @ + 1 ELSE @]
              /\ job_call' = [fn |-> "claim", file_id |-> file_id,
                              owner |-> owner, out |-> r.out,
                              before |-> tb_textract_jobs]
    /\ job_calls' = job_calls + 1
    /\ UNCHANGED <<dbVars, creditVars, handlerVars, textractVars, coreVars>>

\* one call of set_job_started
SetJobStarted ==
    /\ job_calls < MaxJobCalls
    /\ \E file_id \in JobFileIds :
          /\ tb_textract_jobs' = set_job_started(file_id, Str(<<"j1">>),
                                                 tb_textract_jobs)
          /\ job_call' = [fn |-> "started", file_id |-> file_id,
                          before |-> tb_textract_jobs]
    /\ job_calls' = job_calls + 1
    /\ UNCHANGED <<claim_wins, dbVars, creditVars, handlerVars, textractVars,
                   coreVars>>

\* one call of set_job_succeeded
SetJobSucceeded ==
    /\ job_calls < MaxJobCalls
    /\ \E file_id \in JobFileIds :
          /\ tb_textract_jobs' = set_job_finished(file_id, "SUCCEEDED",
                                                  tb_textract_jobs)
          /\ job_call' = [fn |-> "succeeded", file_id |-> file_id,
                          before |-> tb_textract_jobs]
    /\ job_calls' = job_calls + 1
    /\ UNCHANGED <<claim_wins, dbVars, creditVars, handlerVars, textractVars,
                   coreVars>>

\* one call of set_job_failed
SetJobFailed ==
    /\ job_calls < MaxJobCalls
    /\ \E file_id \in JobFileIds :
          /\ tb_textract_jobs' = set_job_finished(file_id, "FAILED",
                                                  tb_textract_jobs)
          /\ job_call' = [fn |-> "failed", file_id |-> file_id,
                          before |-> tb_textract_jobs]
    /\ job_calls' = job_calls + 1
    /\ UNCHANGED <<claim_wins, dbVars, creditVars, handlerVars, textractVars,
                   coreVars>>

(***************************************************************************)
(* run_textract (services/textract_service.py)                             *)
(***************************************************************************)
\* source_key.split("/")[-1]
RECURSIVE LastSegment(_, _)
LastSegment(key, acc) ==
    IF key = <<>> THEN acc
    ELSE IF Head(key) = "/" THEN LastSegment(Tail(key), <<>>)
    ELSE LastSegment(Tail(key), Append(acc, Head(key)))

\* the object keys run_textract is called with
SourceKeys == {<<"u", "/", "k", "/", "a">>, <<"a">>, <<"u", "/">>}

\* what a poll can answer: a job status, no JobStatus at all, an exception
PollAnswers == {"IN_PROGRESS", "SUCCEEDED", "FAILED", "PARTIAL_SUCCESS",
                "absent", "raise"}

TextractIdle ==
    /\ tpc = "idle"
    /\ source_key = <<>>
    /\ temp_key = None
    /\ temp_object = FALSE
    /\ delete_calls = 0
    /\ status = "none"
    /\ polls = 0
    /\ textract_out = Unset

TextractInit ==
    /\ tpc = "copy"
    /\ source_key \in SourceKeys
    /\ temp_key = None
    /\ temp_object = FALSE
    /\ delete_calls = 0
    /\ status = "none"
    /\ polls = 0
    /\ textract_out = Unset

\* copy_to_temp_bucket: the copy succeeds or fails (it fails for an empty
\* temp_key); without a temp_key run_textract raises
CopyToTemp ==
    /\ tpc = "copy"
    /\ \E copied \in BOOLEAN :
          IF copied /\ LastSegment(source_key, <<>>) # <<>>
          THEN /\ temp_key' = Str(LastSegment(source_key, <<>>))
               /\ temp_object' = TRUE
               /\ tpc' = "start"
               /\ UNCHANGED textract_out
          ELSE /\ temp_key' = None
               /\ temp_object' = FALSE
               /\ tpc' = "finally"
               /\ textract_out' = Dict(<<>>)
    /\ UNCHANGED <<source_key, delete_calls, status, polls,
                   dbVars, creditVars, handlerVars, jobVars, coreVars>>

\* start_document_analysis
StartJob ==
    /\ tpc = "start"
    /\ \E started \in BOOLEAN :
          IF started
          THEN /\ status' = "IN_PROGRESS"
               /\ tpc' = "poll"
               /\ UNCHANGED textract_out
          ELSE /\ tpc' = "finally"
               /\ textract_out' = Dict(<<>>)
               /\ UNCHANGED status
    /\ UNCHANGED <<source_key, temp_key, temp_object, delete_calls, polls,
                   dbVars, creditVars, handlerVars, jobVars, coreVars>>

\* one iteration of the polling loop
PollJob ==
    /\ tpc = "poll"
    /\ \E answer \in PollAnswers :
          /\ answer \in {"IN_PROGRESS", "absent"} => polls < MaxPolls
          /\ polls' = polls + 1
          /\ IF answer = "raise"
             THEN /\ tpc' = "finally"
                  /\ textract_out' = Dict(<<>>)
                  /\ UNCHANGED status
             ELSE /\ status' = (IF answer = "absent" THEN status ELSE answer)
                  /\ tpc' = IF answer \in {"IN_PROGRESS", "absent"}
                            THEN "poll" ELSE "collect"
                  /\ UNCHANGED textract_out
    /\ UNCHANGED <<source_key, temp_key, temp_object, delete_calls,
                   dbVars, creditVars, handlerVars, jobVars, coreVars>>

\* the status check, then the collection of the pages, normalisation and
\* marks extraction; any of them may raise
CollectResult ==
    /\ tpc = "collect"
    /\ \E collected \in BOOLEAN :
          textract_out' =
              IF status = "SUCCEEDED" /\ collected
              THEN Dict([normalized_data |-> Str(<<"n">>),
                         marks_data |-> Str(<<"m">>)])
              ELSE Dict(<<>>)
    /\ tpc' = "finally"
    /\ UNCHANGED <<source_key, temp_key, temp_object, delete_calls, status, polls,
                   dbVars, creditVars, handlerVars, jobVars, coreVars>>

NoCleanup(key, object, calls) == {[object |-> object, calls |-> calls]}

\* cleanup_temp_bucket: nothing without a temp_key; else one delete_object,
\* whose failure is swallowed
cleanup_temp_bucket(key, object, calls) ==
    IF ~IsTrue(key) THEN {[object |-> object, calls |-> calls]}
    ELSE {[object |-> FALSE, calls |-> calls + 1],
          [object |-> object, calls |-> calls + 1]}

\* the finally clause, then the return
CleanupAndReturn ==
    /\ tpc = "finally"
    /\ \E c \in cleanup_temp_bucket(temp_key, temp_object, delete_calls) :
          /\ temp_object' = c.object
          /\ delete_calls' = c.calls
    /\ tpc' = "returned"
    /\ UNCHANGED <<source_key, temp_key, status, polls, textract_out,
                   dbVars, creditVars, handlerVars, jobVars, coreVars>>

(***************************************************************************)
(* Specifications                                                          *)
(***************************************************************************)
CoreIdle ==
    ExtractIdle /\ AsmIdle /\ MergeIdle /\ LegacyIdle /\ NormIdle /\ MarksIdle
SvcIdle == DbIdle /\ CreditIdle /\ HandlerIdle /\ JobIdle /\ TextractIdle

ExtractNext == ApplyExtractText \/ ApplyExtractTextLegacy \/ ApplyGetPageNumber
InitExtract ==
    ExtractInit /\ AsmIdle /\ MergeIdle /\ LegacyIdle /\ NormIdle /\ MarksIdle /\ SvcIdle
SpecExtract == InitExtract /\ [][ExtractNext]_vars

AsmNext == CheckChunks \/ GroupChunk \/ SortPages \/ BuildPage \/ ReturnText
InitAssemble ==
    ExtractIdle /\ AsmInit /\ MergeIdle /\ LegacyIdle /\ NormIdle /\ MarksIdle /\ SvcIdle
SpecAssemble == InitAssemble /\ [][AsmNext]_vars

MergeNext ==
    \/ CallFieldExtractor
    \/ CallTableExtractor
    \/ MergeLegacy
    \/ CallUnifiedExtractor
    \/ MergeSingle
InitMerge ==
    ExtractIdle /\ AsmIdle /\ MergeInit /\ LegacyIdle /\ NormIdle /\ MarksIdle /\ SvcIdle
SpecMerge == InitMerge /\ [][MergeNext]_vars

LegacyNext == LabelChunk \/ ReturnTextLegacy
InitAssembleLegacy ==
    ExtractIdle /\ LegacyInit /\ MergeIdle /\ NormIdle /\ MarksIdle /\ SvcIdle
SpecAssembleLegacy == InitAssembleLegacy /\ [][LegacyNext]_vars

NormNext == FetchDoc \/ NormalizeField \/ ReturnFields
InitNormalize ==
    ExtractIdle /\ AsmIdle /\ MergeIdle /\ LegacyIdle /\ NormInit /\ MarksIdle /\ SvcIdle
SpecNormalize == InitNormalize /\ [][NormNext]_vars

MarksNext == StartMarks \/ MarksRow \/ ReturnMarks
InitMarks ==
    ExtractIdle /\ AsmIdle /\ MergeIdle /\ LegacyIdle /\ NormIdle /\ MarksInit /\ SvcIdle
SpecMarks == InitMarks /\ [][MarksNext]_vars

CreditNext == CallDeleteCreditRecord \/ CallUpdateDebitCredit
InitCredit == CoreIdle /\ CreditInit /\ HandlerIdle /\ JobIdle /\ TextractIdle
SpecCredit == InitCredit /\ [][CreditNext]_vars

HandlerNext ==
    ReadEvent \/ LookupFilename \/ RunChunkr \/ ValidateOutput \/ FatalError
InitHandler == CoreIdle /\ HandlerInit /\ JobIdle /\ TextractIdle
SpecHandler == InitHandler /\ [][HandlerNext]_vars

ClaimNext == TryClaim
JobNext == TryClaim \/ SetJobStarted \/ SetJobSucceeded \/ SetJobFailed
InitJobs ==
    CoreIdle /\ DbIdle /\ CreditIdle /\ HandlerIdle /\ JobInit /\ TextractIdle
SpecClaim == InitJobs /\ [][ClaimNext]_vars
SpecJobs == InitJobs /\ [][JobNext]_vars

TextractNext ==
    CopyToTemp \/ StartJob \/ PollJob \/ CollectResult \/ CleanupAndReturn
InitTextract ==
    CoreIdle /\ DbIdle /\ CreditIdle /\ HandlerIdle /\ JobIdle /\ TextractInit
SpecTextract == InitTextract /\ [][TextractNext]_vars

(***************************************************************************)
(* Properties of the page assembler                                        *)
(***************************************************************************)
Indices(s) == [i \in 1..Len(s) |-> i]

\* the positions of the page markers in a document text
MarkerPositions(text) ==
    LET IsMarker(i) == text[i] = MarkerPrefix
    IN  SelectSeq(Indices(text), IsMarker)

PageOfToken(tok) == CHOOSE n \in 0..(MaxPage + 1) : ToString(n) = tok

\* the page numbers of the labeled blocks of a document text, in text order
BlockPages(text) ==
    LET m == MarkerPositions(text)
    IN  [b \in 1..Len(m) |-> PageOfToken(text[m[b] + 1])]

\* the page text of the b-th labeled block of a document text
BlockText(text, b) ==
    LET m == MarkerPositions(text)
    IN  SubSeq(text, m[b] + 4,
               IF b < Len(m) THEN m[b + 1] - 1 - Len(BlockSep) ELSE Len(text))

\* the parts of a text between blank lines
RECURSIVE SplitBlankLine(_, _)
SplitBlankLine(text, cur) ==
    IF text = <<>> THEN <<cur>>
    ELSE IF Len(text) >= 2 /\ SubSeq(text, 1, 2) = BlockSep
         THEN <<cur>> \o SplitBlankLine(SubSeq(text, 3, Len(text)), <<>>)
         ELSE SplitBlankLine(Tail(text), Append(cur, Head(text)))

\* the chunks that yield text, in arrival order
TextChunks ==
    LET HasText(i) == extract_text_from_chunk(chunks[i]) # <<>>
    IN  SelectSeq(Indices(chunks), HasText)

\* the page numbers of the chunks that yield text, in arrival order
ArrivalPages ==
    [i \in 1..Len(TextChunks) |-> get_page_number(chunks[TextChunks[i]], DefaultPage).v]

\* the text fragments arriving for page p, in arrival order
ArrivalTexts(p) ==
    LET OnPage(i) == get_page_number(chunks[i], DefaultPage).v = p
        on == SelectSeq(TextChunks, OnPage)
    IN  [i \in 1..Len(on) |-> extract_text_from_chunk(chunks[on[i]])]

\* the first occurrences of the elements of s, in order
FirstSeen(s) ==
    LET IsFirst(i) == \A j \in 1..(i - 1) : s[j] # s[i]
        firsts == SelectSeq(Indices(s), IsFirst)
    IN  [i \in 1..Len(firsts) |-> s[firsts[i]]]

\* C1: the labeled blocks of the returned document text are in strictly
\* ascending page-number order whatever the arrival order of the chunks,
\* and carry exactly the page numbers of the chunks that yielded text
\* (gaps stay gaps).
C1_BlocksAscending ==
    pc = "done" =>
        LET bp == BlockPages(all_text)
        IN  /\ \A i, j \in 1..Len(bp) : i < j => bp[i] < bp[j]
            /\ Range(bp) = Range(ArrivalPages)

C1_Witness ==
    /\ pc = "done"
    /\ ArrivalPages = <<3, 1, 2>>
    /\ BlockPages(all_text) = <<1, 2, 3>>

\* C2: within each page of the returned document text every distinct
\* fragment occurs once and the fragments are in first-seen arrival order;
\* equal fragments on different pages are each kept.
C2_FragmentsFirstSeen ==
    pc = "done" =>
        LET bp == BlockPages(all_text)
        IN  \A b \in 1..Len(bp) :
                LET frags == SplitBlankLine(BlockText(all_text, b), <<>>)
                IN  /\ \A i, j \in 1..Len(frags) : i # j => frags[i] # frags[j]
                    /\ frags = FirstSeen(ArrivalTexts(bp[b]))

C2_Witness ==
    /\ pc = "done"
    /\ ArrivalTexts(1) = <<tA, tB, tA>>
    /\ SplitBlankLine(BlockText(all_text, 1), <<>>) = <<tA, tB>>

(***************************************************************************)
(* Properties of the chunk helpers                                         *)
(***************************************************************************)
\* the text of an attribute, empty when it is missing or None
TextOf(a) == IF a.k = "str" THEN a.v ELSE <<>>

\* the four representations of a chunk, by rank
Representations(c) ==
    <<TextOf(c.llm),
      TextOf(c.content),
      IF c.segments.k = "list"
      THEN Join([i \in 1..Len(c.segments.v) |-> TextOf(c.segments.v[i].content)],
                <<"\n">>)
      ELSE <<>>,
      TextOf(c.html)>>

\* the first non-empty representation, empty when all four are empty
FirstNonEmpty(c) ==
    LET reps == Representations(c)
        NonEmpty(i) == reps[i] # <<>>
        ranks == SelectSeq(Indices(reps), NonEmpty)
    IN  IF ranks = <<>> THEN <<>> ELSE reps[ranks[1]]

\* C9: the extractor returns the (cleaned) first non-empty representation
\* in the order llm, content, join of segment contents, html; it falls
\* through a segment list whose segments are all empty.
C9_FirstNonEmptyWins ==
    /\ text_out.k = "ok" => text_out.v = CleanText(FirstNonEmpty(chunk_obj))
    /\ text_out_legacy.k = "ok" =>
          text_out_legacy.v = CleanText(FirstNonEmpty(chunk_obj))

\* the page number the resolution order gives
ResolvedPage(c) ==
    LET segs == IF c.segments.k = "list" THEN c.segments.v ELSE <<>>
        Carries(i) == segs[i].metadata.k = "page"
        carriers == SelectSeq(Indices(segs), Carries)
    IN  IF c.metadata.k = "page" THEN c.metadata.v
        ELSE IF carriers # <<>> THEN segs[carriers[1]].metadata.v
        ELSE DefaultPage

\* C10: get_page_number never raises and returns the chunk-level page
\* number, else that of the first segment carrying one, else the default.
C10_PageNumberTotal ==
    page_out # Unset => page_out = Ok(ResolvedPage(chunk_obj))

(***************************************************************************)
(* Properties of the extractors and mergers                                *)
(***************************************************************************)
\* the answer the extractor parses out of a response
ParsedAnswer(out) == json_loads(IsolateJson(Strip(out.v)))

\* the model answered this call with a JSON object
ObjectAnswer(out) ==
    /\ out.k = "ok"
    /\ ParsedAnswer(out).k = "ok"
    /\ ParsedAnswer(out).v.k = "obj"

\* the model answered, and the answer is not JSON
UnparseableAnswer(out) == out.k = "ok" /\ ParsedAnswer(out).k = "raise"

AllObjectAnswers == \A i \in 1..Len(llm_log) : ObjectAnswer(llm_log[i].out)

Merged == mpc \in {"merged", "merged_single"}

DeclaredKeys == Range(FieldNames(field_items)) \cup Range(TableNames)

IsTableEntry(val) ==
    /\ val.k = "obj"
    /\ DOMAIN val.v = {"fieldType", "items"}
    /\ val.v["fieldType"] = JStr(<<"table">>)

\* the stored rows of a table entry
StoredRows(val) == val.v["items"].v

EmptyMarker(val) == val = JNull \/ val = JStr(<<>>)

\* C3: after a merge in any mode the stored record has every declared field
\* name and table name as a key, whatever keys the model's JSON answers had.
C3_SchemaComplete ==
    (Merged /\ AllObjectAnswers /\ storedData.k = "ok") =>
        /\ storedData.v.k = "obj"
        /\ DeclaredKeys \subseteq DOMAIN storedData.v.v

\* C4: in table-map mode every row of every stored table has every declared
\* column of that table as a key, for every shape of parseable answer.
C4_TableRowsComplete ==
    (mpc = "merged" /\ storedData.k = "ok") =>
        \A t \in Range(TableNames) :
            \A i \in 1..Len(StoredRows(storedData.v.v[t])) :
                Range(ColumnsOf(t)) \subseteq DOMAIN StoredRows(storedData.v.v[t])[i].v

\* C5: in table-map mode a stored cell whose column was absent from the
\* model's row, or null in it, is a null/empty marker and no other string.
C5_TableCellEmptyMarker ==
    (mpc = "merged" /\ storedData.k = "ok") =>
        \A t \in Range(TableNames) :
            \A i \in 1..Len(StoredRows(storedData.v.v[t])) :
                \A c \in Range(ColumnsOf(t)) \cap DOMAIN table_results[t].v[i].v :
                    table_results[t].v[i].v[c] = JNull =>
                        EmptyMarker(StoredRows(storedData.v.v[t])[i].v[c])

\* C6: in unified mode every row of every stored table entry has every
\* column declared for that table.
C6_UnifiedRowsComplete ==
    (mpc = "merged_single" /\ storedData.k = "ok") =>
        \A t \in Range(TableNames) \cap DOMAIN storedData.v.v :
            IsTableEntry(storedData.v.v[t]) =>
                \A i \in 1..Len(StoredRows(storedData.v.v[t])) :
                    Range(ColumnsOf(t)) \subseteq
                        DOMAIN StoredRows(storedData.v.v[t])[i].v

\* what an extractor returns for one unit of work: a parsed object, the
\* failure marker ("NA" or None) or the raw fallback
OrdinaryOutcome(out) ==
    out.k = "raise" \/ ObjectAnswer(out) \/ UnparseableAnswer(out)

\* C7: whatever the extractors returned for the units of work (parsed
\* object, "NA", raw fallback, None), the merger completes without raising.
C7_MergeNeverRaises ==
    (Merged /\ \A i \in 1..Len(llm_log) : OrdinaryOutcome(llm_log[i].out)) =>
        storedData.k = "ok"

\* what the extractor returned for the i-th logged call
ResultOf(i) ==
    IF llm_log[i].unit = "unified" THEN final_result
    ELSE IF llm_log[i].unit = "fields"
    THEN LET IsFieldCall(j) == llm_log[j].unit = "fields"
             n == Len(SelectSeq(SubSeq(Indices(llm_log), 1, i), IsFieldCall))
         IN  field_results[n]
    ELSE table_results[llm_log[i].unit]

\* C8: when the response of a unit of work is not JSON, the extractor
\* records {raw: T} with T the original response text (surrounding blanks
\* apart), not a brace-trimmed part of it.
C8_RawIsOriginalText ==
    \A i \in 1..Len(llm_log) :
        UnparseableAnswer(llm_log[i].out) =>
            ResultOf(i) = RawFallback(Strip(llm_log[i].out.v))

(***************************************************************************)
(* Properties of the two assemblers                                        *)
(***************************************************************************)
\* the text each chunk yields in the variant that is running
ChunkTexts ==
    [i \in 1..Len(chunks) |->
        IF pc \in {"label", "done_legacy"}
        THEN extract_text_from_chunk_legacy(chunks[i])
        ELSE extract_text_from_chunk(chunks[i])]

Returned == pc \in {"done", "done_legacy"}

\* C11: for an empty chunk sequence, and for a chunk sequence in which every
\* chunk yields empty text, process_file_async does not raise and returns
\* the empty string and a page count of 0.
C11_NoTextGivesEmpty ==
    (pc # "idle" /\ \A i \in 1..Len(chunks) : ChunkTexts[i] = <<>>) =>
        /\ pc # "raised"
        /\ Returned => all_text = <<>> /\ page_count = 0

\* C12: the page count of the page-grouping assembler is the number of
\* distinct page numbers for which some chunk yielded text, and the number
\* of labeled blocks of the returned text; no block has an empty page text.
C12_PageCountIsPagesWithText ==
    pc = "done" =>
        /\ page_count = Cardinality(Range(ArrivalPages))
        /\ page_count = Len(MarkerPositions(all_text))
        /\ \A b \in 1..Len(MarkerPositions(all_text)) : BlockText(all_text, b) # <<>>

C12_Witness ==
    /\ pc = "done"
    /\ Len(chunks) = 3
    /\ Len(TextChunks) = 2
    /\ page_count = 1
    /\ \E i \in 1..Len(chunks) :
          /\ extract_text_from_chunk(chunks[i]) = <<>>
          /\ get_page_number(chunks[i], DefaultPage).v \notin Range(ArrivalPages)

\* the texts of the chunks whose resolved page number is p
TextsOfPage(p) ==
    {ChunkTexts[i] : i \in {j \in 1..Len(chunks) :
                               ChunkTexts[j] # <<>> /\ ResolvedPage(chunks[j]) = p}}

\* C13: in both variants the returned text is its blocks joined by one
\* blank line, each block being the marker line
\* "===== CHUNKR PAGE NUMBER <n> =====", a newline and the page text, where
\* <n> is the page number resolved for the chunks whose text the block holds.
C13_BlocksAreMarkerAndText ==
    Returned =>
        LET m == MarkerPositions(all_text)
            bp == BlockPages(all_text)
            block(b) == <<MarkerPrefix, ToString(bp[b]), MarkerSuffix, "\n">>
                            \o BlockText(all_text, b)
        IN  /\ all_text = Join([b \in 1..Len(m) |-> block(b)], BlockSep)
            /\ \A b \in 1..Len(m) :
                  Range(SplitBlankLine(BlockText(all_text, b), <<>>))
                      = TextsOfPage(bp[b])

(***************************************************************************)
(* Properties of the schema normalizer                                     *)
(***************************************************************************)
\* the trimmed name of a raw entry or of a raw column (empty when missing)
TrimmedName(x) == IF x.fieldName.k = "str" THEN Strip(x.fieldName.v) ELSE <<>>

RawIsField(entry) == entry.fieldType \in {Absent, Str(<<"field">>)}
RawIsTable(entry) == entry.fieldType = Str(<<"table">>)

\* the columns of a raw table entry that have a name
NamedColumns(entry) ==
    LET HasName(col) == TrimmedName(col) # <<>>
    IN  IF entry.tableData.k = "list"
        THEN SelectSeq(entry.tableData.v, HasName) ELSE <<>>

\* the targets the last completed iteration of the normalizer added
AddedTargets ==
    SubSeq(normalized_fields', Len(normalized_fields) + 1, Len(normalized_fields'))

\* C14: every target the normalizer returns has a fieldName that is
\* non-empty after trimming, every table target carries the name of its
\* table, and a raw entry or a table column whose name is empty or
\* whitespace-only produces no target.
C14_TargetsAreNamed ==
    [][/\ \A i \in 1..Len(normalized_fields') :
             LET t == normalized_fields'[i]
             IN  /\ Strip(t.fieldName) # <<>>
                 /\ t.fieldType = "table" =>
                       \E j \in 1..Len(requested_fields') :
                           LET entry == requested_fields'[j]
                           IN  /\ RawIsTable(entry)
                               /\ t.tableName = TrimmedName(entry)
                               /\ t.tableName # <<>>
                               /\ \E c \in 1..Len(NamedColumns(entry)) :
                                     TrimmedName(NamedColumns(entry)[c]) = t.fieldName
       /\ (npc = "loop" /\ nidx' = nidx + 1) =>
             LET entry == requested_fields[nidx]
             IN  /\ TrimmedName(entry) = <<>> => AddedTargets = <<>>
                 /\ RawIsTable(entry) =>
                       Len(AddedTargets) <= Len(NamedColumns(entry))]_vars

C14_Witness ==
    /\ npc = "done"
    /\ normalized_fields # <<>>
    /\ \E i \in 1..Len(requested_fields) : TrimmedName(requested_fields[i]) = <<>>
    /\ \E i \in 1..Len(requested_fields) :
          LET entry == requested_fields[i]
          IN  /\ RawIsTable(entry)
              /\ TrimmedName(entry) # <<>>
              /\ entry.tableData.k = "list"
              /\ NamedColumns(entry) # <<>>
              /\ Len(NamedColumns(entry)) < Len(entry.tableData.v)

\* what identifies a target: its type, its table if any, and its name
TargetKey(t) ==
    IF t.fieldType = "table" THEN <<"table", t.tableName, t.fieldName>>
    ELSE <<"field", t.fieldName>>

ReturnedKeys == [i \in 1..Len(normalized_fields) |-> TargetKey(normalized_fields[i])]

ColumnKeys(entry) ==
    [c \in 1..Len(NamedColumns(entry)) |->
        <<"table", TrimmedName(entry), TrimmedName(NamedColumns(entry)[c])>>]

\* one target per field entry, one per named column of each table entry
ClaimedKeys(entry) ==
    IF RawIsField(entry) THEN <<<<"field", TrimmedName(entry)>>>>
    ELSE IF RawIsTable(entry) THEN ColumnKeys(entry)
    ELSE <<>>

\* the same for the entries that have a name, nothing for the others
NamedKeys(entry) == IF TrimmedName(entry) = <<>> THEN <<>> ELSE ClaimedKeys(entry)

RECURSIVE Flatten(_)
Flatten(seqs) == IF seqs = <<>> THEN <<>> ELSE Head(seqs) \o Flatten(Tail(seqs))

\* C15 as stated: the output is the concatenation, in input order, of one
\* target per field entry (fieldType "field" or absent) and of one target
\* per named column of each table entry, and of nothing else.
C15_ConcatenationOfAllEntries ==
    npc = "done" =>
        ReturnedKeys
            = Flatten([i \in 1..Len(requested_fields) |-> ClaimedKeys(requested_fields[i])])

\* C15, amended: the output is the concatenation, in input order, of one
\* target per field entry (fieldType "field" or absent) whose trimmed name
\* is non-empty and, for each table entry whose trimmed name is non-empty,
\* of one target per named column in column order; a table entry with no
\* columns contributes no target and no other target is emitted.
C15_ConcatenationOfNamedEntries ==
    npc = "done" =>
        ReturnedKeys
            = Flatten([i \in 1..Len(requested_fields) |-> NamedKeys(requested_fields[i])])

C15_Witness ==
    /\ npc = "done"
    /\ Len(requested_fields) = 2
    /\ RawIsTable(requested_fields[1])
    /\ requested_fields[1].tableData.k = "list"
    /\ Len(requested_fields[1].tableData.v) = 2
    /\ ReturnedKeys = <<<<"table", <<"T">>, <<"d">>>>, <<"table", <<"T">>, <<"c">>>>,
                        <<"field", <<"N">>>>>>

(***************************************************************************)
(* Properties of the mergers                                               *)
(***************************************************************************)
\* the per-call maps that hold key q, by position in field_results
MapsHolding(q) ==
    LET Holds(i) == field_results[i].k = "obj" /\ q \in DOMAIN field_results[i].v
    IN  SelectSeq(Indices(field_results), Holds)

\* the value of q in the last per-call map that holds it
LastValue(q) == field_results[MapsHolding(q)[Len(MapsHolding(q))]].v[q]

\* the keys of the merged flat record
FlatKeys == {q \in StringLits \cup {"raw"} : MapsHolding(q) # <<>>}

\* C16: in field-list mode the stored flat record holds every key of the
\* per-call maps; the value of a key comes from the last map that holds it,
\* as the trimmed string form of that value, a null as the empty string.
C16_LastMapWins ==
    (mpc = "merged" /\ storedData.k = "ok") =>
        \A q \in FlatKeys \ DOMAIN table_results :
            /\ storedData.v.k = "obj"
            /\ q \in DOMAIN storedData.v.v
            /\ storedData.v.v[q]
                  = IF LastValue(q) = JNull THEN JStr(<<>>)
                    ELSE JStr(Strip(PyStr(LastValue(q))))

C16_Witness ==
    /\ mpc = "merged"
    /\ storedData.k = "ok"
    /\ Len(MapsHolding("Name")) = 2
    /\ Len(MapsHolding("Age")) = 2
    /\ field_results[1].v["Name"] = JStr(<<"Bob">>)
    /\ field_results[2].v["Name"] = JStr(<<" ", "Bob", " ">>)
    /\ field_results[1].v["Age"] = JNum(3)
    /\ field_results[2].v["Age"] = JNull
    /\ storedData.v.v["Name"] = JStr(<<"Bob">>)
    /\ storedData.v.v["Age"] = JStr(<<>>)

\* C17: in unified mode the stored record has exactly the keys of the
\* input object, and every stored value is a string (a string passed
\* through, a null as the empty string, any other shape serialised) or a
\* table structure {fieldType: "table", items: [...]}.
C17_UnifiedKeepsEveryKey ==
    (mpc = "merged_single" /\ storedData.k = "ok") =>
        /\ final_result.k = "obj"
        /\ storedData.v.k = "obj"
        /\ DOMAIN storedData.v.v = DOMAIN final_result.v
        /\ \A q \in DOMAIN final_result.v :
              LET given == final_result.v[q]
                  kept == storedData.v.v[q]
              IN  /\ kept.k = "str" \/ (IsTableEntry(kept) /\ kept.v["items"].k = "list")
                  /\ given.k = "str" => kept = given
                  /\ given.k = "null" => kept = JStr(<<>>)
                  /\ given.k \in {"num", "list"} => kept = JStr(json_dumps(given))

C17_Witness ==
    /\ mpc = "merged_single"
    /\ storedData.k = "ok"
    /\ final_result.k = "obj"
    /\ {"Name", "T"} \subseteq DOMAIN final_result.v
    /\ final_result.v["Name"] = JNum(3)
    /\ final_result.v["T"].k = "list"
    /\ storedData.v.v["Name"] = JStr(<<"3">>)
    /\ storedData.v.v["T"].k = "str"

(***************************************************************************)
(* Properties of the marks extractor                                       *)
(***************************************************************************)
\* the data rows of the marks table (the first row is the header)
DataRows == 2..Len(marks_table)

\* the Part B/C entries a data row gives when it is processed on its own
RowEntries(row) == ProcessRow(InitialData, row, 1).PartB_C

\* C18: every Part B/C entry has a question number in 11..16 and a sub-part
\* a or b, the identifiers are pairwise distinct, and of several data rows
\* that resolve to one identifier the entry of the first is the one kept.
C18_PartBCDistinctFirstKept ==
    LET items == final_data.PartB_C
    IN  /\ \A i \in 1..Len(items) :
              \E q \in 11..16, s \in {"a", "b"} : items[i].Q_No = <<ToString(q), s>>
        /\ \A i, j \in 1..Len(items) : i # j => items[i].Q_No # items[j].Q_No
        /\ kpc = "done" =>
              \A i \in 1..Len(items) :
                  \E r \in DataRows :
                      /\ RowEntries(marks_table[r]) = <<items[i]>>
                      /\ \A h \in DataRows :
                            (h < r /\ RowEntries(marks_table[h]) # <<>>) =>
                                RowEntries(marks_table[h])[1].Q_No # items[i].Q_No

C18_Witness ==
    /\ kpc = "done"
    /\ \E r, h \in DataRows :
          /\ r < h
          /\ RowEntries(marks_table[r]) # <<>>
          /\ RowEntries(marks_table[h]) # <<>>
          /\ RowEntries(marks_table[r])[1].Q_No = RowEntries(marks_table[h])[1].Q_No
          /\ RowEntries(marks_table[r]) # RowEntries(marks_table[h])
          /\ final_data.PartB_C = RowEntries(marks_table[r])

\* C19: the attempts on a row are independent.  What the Part A attempt,
\* the Part B/C attempt and the totals detection give for a data row on its
\* own is in the result, whether or not another attempt on that row or on
\* an earlier row failed.
C19_AttemptsIndependent ==
    kpc = "done" =>
        \A r \in DataRows :
            LET row == marks_table[r]
                a == PartA(InitialData, row)
                b == PartBC(InitialData, row)
                t == TotalsRow(InitialData, row)
            IN  /\ (a.k = "ok" /\ a.v.PartA # <<>>) =>
                      \E i \in 1..Len(final_data.PartA) :
                          final_data.PartA[i] = a.v.PartA[1]
                /\ (b.k = "ok" /\ b.v.PartB_C # <<>>) =>
                      \E i \in 1..Len(final_data.PartB_C) :
                          final_data.PartB_C[i].Q_No = b.v.PartB_C[1].Q_No
                /\ DOMAIN t.Totals \subseteq DOMAIN final_data.Totals

\* a total as it counts in the grand total: 0 when absent or not a number
CountedTotal(key) ==
    LET totals == final_data.Totals
    IN  IF key \notin DOMAIN totals THEN 0
        ELSE IF totals[key] = None THEN 0
        ELSE totals[key].v

\* C20: for a non-empty table list the returned Totals hold GrandTotal, the
\* sum of PartA_Total and PartBC_Total with a total that was not parsed
\* counted as 0; totals of 20 and 15 give a GrandTotal of 35.
C20_GrandTotalIsSum ==
    (kpc = "done" /\ tables # <<>>) =>
        /\ "GrandTotal" \in DOMAIN final_data.Totals
        /\ final_data.Totals["GrandTotal"]
              = IntV(CountedTotal("PartA_Total") + CountedTotal("PartBC_Total"))
        /\ (CountedTotal("PartA_Total") = 20 /\ CountedTotal("PartBC_Total") = 15) =>
              final_data.Totals["GrandTotal"] = IntV(35)

C20_Witness ==
    /\ kpc = "done"
    /\ DOMAIN final_data.Totals = {"PartA_Total", "PartBC_Total", "GrandTotal"}
    /\ final_data.Totals["PartA_Total"] = IntV(20)
    /\ final_data.Totals["PartBC_Total"] = IntV(15)
    /\ final_data.Totals["GrandTotal"] = IntV(35)

(***************************************************************************)
(* Part A entries, the sample table, the choice of the marks table         *)
(***************************************************************************)
\* "total" in cell.lower(): the cell labels a totals row
IsTotalsLabel(cell) ==
    cell.k = "str" /\ IsSubstring(<<"t", "o", "t", "a", "l">>, Lower(cell.v))

\* C21: every Part A entry comes from a data row (not the header) whose
\* column 0 gives, by its digits, a question number in 1..10, with Marks
\* read from column 2 and Answered true exactly when column 1 is a
\* checkmark; and that row is not a totals row.
C21_PartAFromQuestionRows ==
    kpc = "done" =>
        \A i \in 1..Len(final_data.PartA) :
            \E r \in DataRows :
                LET row == marks_table[r]
                    entry == final_data.PartA[i]
                    q_no == _safe_to_int(Cell(row, 0))
                    mark_val == IF Len(row) > 2 THEN _safe_to_int(Cell(row, 2))
                                ELSE Ok(None)
                    answered == IF Len(row) > 1 THEN _is_checkmark(Cell(row, 1))
                                ELSE Ok(FALSE)
                IN  /\ Len(row) > 0
                    /\ q_no.k = "ok" /\ q_no.v.k = "int"
                    /\ q_no.v.v \in 1..10
                    /\ entry.Q_No = <<ToString(q_no.v.v)>>
                    /\ mark_val.k = "ok" /\ entry.Marks = mark_val.v
                    /\ answered.k = "ok" /\ entry.Answered = answered.v
                    /\ ~IsTotalsLabel(Cell(row, 0))

\* the data rows of the sample table
SampleRowA == <<Str(<<"1">>), Str(<<"U+2713">>), Str(<<"5">>)>>
SampleRowQuestionFirst ==
    <<Str(<<"1", "1">>), Str(<<"a">>), Str(<<>>), Str(<<"x">>), Str(<<>>),
      Str(<<"5">>), Str(<<>>), Str(<<"3">>), Str(<<>>), Str(<<"2">>), Str(<<>>),
      Str(<<"1", "0">>)>>
SampleRowColumnThree ==
    <<Str(<<>>), Str(<<>>), Str(<<>>), Str(<<"1", "1">>), Str(<<"a">>),
      Str(<<"/">>), Str(<<"5">>), Str(<<>>), Str(<<"3">>), Str(<<>>),
      Str(<<"2">>), Str(<<"1", "0">>)>>

SampleResult ==
    /\ final_data.PartA = <<Question(<<"1">>, IntV(5), TRUE)>>
    /\ final_data.PartB_C = <<Question(<<"11", "a">>, IntV(10), TRUE)>>

\* C22 as stated: a header row, the row 1, checkmark, 5 and the row that
\* starts with 11, a give one Part A entry (1, 5, answered) and one Part B/C
\* entry (11a, 10, answered).
C22_SampleQuestionFirst ==
    (/\ kpc = "done"
     /\ Len(marks_table) = 3
     /\ marks_table[2] = SampleRowA
     /\ marks_table[3] = SampleRowQuestionFirst) => SampleResult

\* C22 amended: the same holds when the second data row carries the
\* question number 11 in column 3, the sub-part a in column 4, a checkmark
\* in column 5 and the total 10 in column 11.
C22_SampleColumnThree ==
    (/\ kpc = "done"
     /\ Len(marks_table) = 3
     /\ marks_table[2] = SampleRowA
     /\ marks_table[3] = SampleRowColumnThree) => SampleResult

C22_Witness ==
    /\ kpc = "done"
    /\ Len(marks_table) = 3
    /\ marks_table[2] = SampleRowA
    /\ marks_table[3] = SampleRowColumnThree
    /\ Len(final_data.PartA) = 1
    /\ Len(final_data.PartB_C) = 1
    /\ final_data.PartB_C[1].Answered

\* the loop of extract_marks over the rows after the first of one table
RECURSIVE MarksOfRows(_, _, _)
MarksOfRows(fd, table, r) ==
    IF r > Len(table) THEN fd
    ELSE MarksOfRows(ProcessRow(fd, table[r], r - 1), table, r + 1)

\* what the data rows of one table give, with the grand total
MarksOfTable(table) ==
    [MarksOfRows(InitialData, table, 2) EXCEPT
        !.Totals = Put(@, "GrandTotal", IntV(GrandTotal(@)))]

\* C23: the result is what the data rows of one table give, a table with
\* the greatest number of rows; its first row and the other tables add
\* nothing.
C23_OneLargestTable ==
    (kpc = "done" /\ tables # <<>>) =>
        \E t \in 1..Len(tables) :
            /\ \A j \in 1..Len(tables) : Len(tables[j]) <= Len(tables[t])
            /\ final_data = MarksOfTable(tables[t])

C23_Witness ==
    /\ kpc = "done"
    /\ Len(tables) = 2
    /\ Len(tables[1]) < Len(tables[2])
    /\ tables[1] # <<>>
    /\ final_data.PartA # <<>>
    /\ ProcessRow(InitialData, marks_table[1], 1).PartA # <<>>
    /\ ProcessRow(InitialData, tables[1][1], 1).PartA # <<>>
    /\ final_data = MarksOfTable(tables[2])
    /\ final_data # MarksOfTable(tables[1])

(***************************************************************************)
(* lambda_handler and the credit record                                    *)
(***************************************************************************)
\* the handler returned a payload with this status
Returned_(status_) ==
    hpc = "returned" /\ response.k = "ok" /\ response.v.status = status_

\* run_chunkr gave a result whose page_count is 0
NoTextResult ==
    /\ frame.extraction_result.k = "dict"
    /\ "page_count" \in DOMAIN frame.extraction_result.v
    /\ frame.extraction_result.v.page_count = 0

\* C24: when the extraction result has page_count 0 the handler does not
\* return status "success"; it marks the file failed and sets the job
\* status to error.
C24_NoTextIsFailed ==
    (hpc = "returned" /\ NoTextResult) =>
        /\ ~Returned_("success")
        /\ tb_file_details["f1"] = "Failed"
        /\ "j1" \in DOMAIN job_status /\ job_status["j1"] = "error"

\* C25: when the handler returns status "Failed" for an event that carries
\* a creditId, delete_credit_record was called during the invocation.
C25_FailedReclaimsCredit ==
    (Returned_("Failed") /\ event.creditId # Absent) => credit_calls >= 1

\* C26: delete_credit_record raises when the creditId is missing and when
\* no credit record has that id; in the second case the file details are
\* as they were before the call.
C26_DeleteRaisesOnMissingAndNotFound ==
    (credit_call # None /\ credit_call.fn = "delete") =>
        /\ ~IsTrue(credit_call.credit_id) => credit_call.out = Raise
        /\ (/\ IsTrue(credit_call.credit_id)
            /\ Matches(credit_call.credits, ObjectId(credit_call.credit_id)) = {})
           => /\ credit_call.out = Raise
              /\ tb_file_details = credit_call.files

\* C27: in both variants the handler returns a payload whatever the event
\* and whatever run_chunkr gave: status "success", or status "Failed" with
\* normalized_data None; no exception leaves it, so no local is read before
\* it is assigned.
C27_HandlerAlwaysReturnsPayload ==
    hpc = "returned" =>
        /\ response.k = "ok"
        /\ \/ response.v.status = "success"
           \/ response.v.status = "Failed" /\ response.v.normalized_data = None

(***************************************************************************)
(* Job records                                                             *)
(***************************************************************************)
\* C28: of the calls of try_claim_processing for one file at most one
\* returns True; a call that returns False changes nothing, so the record
\* keeps the owner, the status CLAIMED and the attempts 0 of the winner.
C28_OneClaimWins ==
    /\ \A f \in DOMAIN claim_wins : claim_wins[f] <= 1
    /\ \A f \in DOMAIN tb_textract_jobs :
          /\ claim_wins[f] = 1
          /\ tb_textract_jobs[f].status = "CLAIMED"
          /\ tb_textract_jobs[f].attempts = 0
    /\ job_call # None =>
          /\ \A f \in DOMAIN job_call.before :
                /\ f \in DOMAIN tb_textract_jobs
                /\ tb_textract_jobs[f] = job_call.before[f]
          /\ ~job_call.out => tb_textract_jobs = job_call.before
          /\ job_call.out =>
                tb_textract_jobs[ObjectId(job_call.file_id).v].owner = job_call.owner

C28_Witness ==
    /\ job_call # None
    /\ ~job_call.out
    /\ ObjectId(job_call.file_id).v = "f1"
    /\ tb_textract_jobs["f1"].owner # job_call.owner
    /\ claim_wins["f1"] = 1

\* C29: when the job record of a file exists, set_job_started with that
\* file id sets its status to IN_PROGRESS, sets its jobId and adds 1 to its
\* attempts.
C29_StartedUpdatesClaimedRecord ==
    (/\ job_call # None
     /\ job_call.fn = "started"
     /\ ObjectId(job_call.file_id).v \in DOMAIN job_call.before) =>
        LET key == ObjectId(job_call.file_id).v
        IN  /\ tb_textract_jobs[key].status = "IN_PROGRESS"
            /\ tb_textract_jobs[key].jobId = Str(<<"j1">>)
            /\ tb_textract_jobs[key].attempts = job_call.before[key].attempts + 1

(***************************************************************************)
(* run_textract                                                            *)
(***************************************************************************)
\* run_textract returns something non-empty only after a last polled
\* status SUCCEEDED
ResultOnlyOnSuccess ==
    tpc = "returned" =>
        /\ textract_out # Dict(<<>>) => status = "SUCCEEDED"
        /\ status # "SUCCEEDED" => textract_out = Dict(<<>>)

\* C30 as stated: when the copy succeeded the temporary object is deleted,
\* once, before run_textract returns, and the result is non-empty only
\* after the status SUCCEEDED.
C30_TempObjectDeleted ==
    /\ delete_calls <= 1
    /\ (tpc = "returned" /\ temp_key # None) =>
          delete_calls = 1 /\ ~temp_object
    /\ ResultOnlyOnSuccess

\* C30 amended: when the copy succeeded exactly one delete of the temporary
\* object has been requested before run_textract returns (none when there
\* was no copy), and the result is non-empty only after the status
\* SUCCEEDED.
C30_DeleteRequestedOnce ==
    /\ delete_calls <= 1
    /\ tpc # "returned" => delete_calls = 0
    /\ tpc = "returned" => delete_calls = (IF temp_key # None THEN 1 ELSE 0)
    /\ ResultOnlyOnSuccess

C30_Witness ==
    /\ tpc = "returned"
    /\ temp_key # None
    /\ delete_calls = 1
    /\ temp_object
    /\ polls > 1
    /\ status = "SUCCEEDED"
    /\ textract_out # Dict(<<>>)

====
